---- MODULE Spec2Model ----
(***************************************************************************)
(* State-machine model of the ldtc guardrail pipeline:                     *)
(*   guardrails/audit.py     AuditLog   (hash-chained JSONL audit log)     *)
(*   guardrails/lreg.py      LREG       (raw-measurement enclave)          *)
(*   guardrails/dt_guard.py  DeltaTGuard (rate-limited dt governance)      *)
(*   lmeas/partition.py      PartitionManager (C/Ex with hysteresis)       *)
(*   attest/indicators.py    build_and_sign / quantize_M                   *)
(*   attest/exporter.py      IndicatorExporter (rate-limited export)       *)
(*   scripts/verify_indicators.py  audit chain and bundle verifier         *)
(*   runtime/windows.py      SlidingWindow (per-channel deques)            *)
(*   plant/hw_adapter.py     HardwarePlantAdapter (telemetry, read_state)  *)
(*   arbiter/refusal.py      decide;  arbiter/policy.py  compute           *)
(*   lmeas/metrics.py        sc1_evaluate                                  *)
(*   lmeas/partition.py      greedy_suggest_C                              *)
(*   runtime/windows.py      block_bootstrap_indices                       *)
(*   plant/models.py         Plant;  plant/adapter.py  PlantAdapter        *)
(*   guardrails/smelltests.py  audit_chain_broken,                         *)
(*                           invalid_flip_during_omega                     *)
(* Each component has its own specification over the shared variables:     *)
(* SpecAudit, SpecLreg, SpecLregPair (two registers fed entries that       *)
(* differ in raw fields only), SpecLregThreads (two threads, one step per  *)
(* lock section or unlocked read), SpecDt, SpecPart, SpecPartHyst,         *)
(* SpecExport, SpecAttest (a run followed by the verifier) and SpecRun     *)
(* (guard, register and exporter driven by the run loop),                  *)
(* SpecAuditThreads (append from two threads), SpecWindow (a writer and a  *)
(* reader without a lock), SpecHw, SpecFn (the pure functions applied to   *)
(* enumerated inputs), SpecGreedy and SpecGreedyLive (one loop iteration   *)
(* per step, with weak fairness on the loop), SpecBootstrap and            *)
(* SpecBootstrapLive (one draw per step), SpecPlant (omegas and actuator   *)
(* writes), SpecAuditFile (one audit file written by successive AuditLog   *)
(* instances, then checked), SpecPartAny (maybe_regrow given any list of   *)
(* integers) and SpecOmega (freeze and maybe_regrow around one omega       *)
(* window).                                                                *)
(*                                                                         *)
(* Conventions.  Python None is <<>> and a present value v is <<v>>.       *)
(* A dict is the sequence of its <<key, value>> items in insertion order.  *)
(* Time is counted in ticks, TicksPerSecond of them to a second.           *)
(* M_db values are counted in eighths of a dB.                             *)
(* The exporter's time.time() is exp_now, in exporter ticks,               *)
(* ExpTicksPerMs of them to a millisecond.                                 *)
(* A float is a record: Fin(v), NaN, Inf, or Big(sign) for a finite        *)
(* double too large to round; comparisons with NaN are false.              *)
(* E, T and R are counted in hundredths in the arbiter; the plant state    *)
(* is counted in units of 1/PlantUnit, products rounded down.              *)
(***************************************************************************)
EXTENDS Integers, Sequences, FiniteSets, TLC

VARIABLES
    clock,               \* time.time(), in ticks
    \* ---- AuditLog
    audit_counter,       \* AuditLog._counter
    audit_prev_hash,     \* AuditLog._prev_hash
    audit_file,          \* the JSONL file: one record per line
    audit_call,          \* the last append call: its arguments and outcome
    \* ---- LREG
    lreg_entries,        \* LREG._entries, entry idx is at position idx+1
    lreg_counter,        \* LREG._counter
    lreg_invalidated,    \* LREG._invalidated
    lreg_reason,         \* LREG._reason
    lreg_ret,            \* the last LREG / indicator call and what it returned
    lreg_inval_at,       \* monitor: number of entries at the first invalidate, if any
    \* ---- DeltaTGuard and the scheduler it governs
    dt_last_change_ts,   \* DeltaTGuard._last_change_ts
    dt_window_start_ts,  \* DeltaTGuard._window_start_ts
    dt_changes_in_window,\* DeltaTGuard._changes_in_window
    dt_invalidated,      \* DeltaTGuard._invalidated
    sched_dt,            \* the scheduler's dt
    sched_set_dt_calls,  \* number of scheduler.set_dt invocations
    dt_hist,             \* one entry per change_dt call: pre-state and outcome
    \* ---- PartitionManager
    pm_N,                \* PartitionManager._N
    part_C,              \* Partition.C
    part_Ex,             \* Partition.Ex
    part_frozen,         \* Partition.frozen
    part_flips,          \* Partition.flips
    pm_pending_C,        \* PartitionManager._pending_C
    pm_pending_streak,   \* PartitionManager._pending_streak
    pm_last_M_db,        \* PartitionManager._last_M_db
    pm_last_flip_info,   \* PartitionManager.last_flip_info
    pm_call,             \* the last PartitionManager call, its pre-state, and its
                         \* arguments <<suggested_C, delta_M_db>> when it committed
    pm_k,                \* consecutive_required when held fixed for a run
    pm_run,              \* monitor: the current run of identical sufficient suggestions
    \* ---- a second LREG, driven alongside the first
    lreg2_entries,       \* its _entries
    lreg2_invalidated,   \* its _invalidated
    \* ---- threads calling into LREG
    lreg_lock,           \* LREG._lock: the thread holding it, if any
    lreg_thr,            \* per thread: the call in progress, its position and locals
    lreg_returned,       \* the write calls that returned so far, in order of return:
                         \* the index returned, the entry written, the calling thread
    \* ---- IndicatorExporter and the files it writes
    exp_now,             \* time.time() as read by the exporter, in exporter ticks
    exp_rate_hz,         \* the configured rate_hz, as <<numerator, denominator>>
    exp_last,            \* IndicatorExporter._last
    exp_dir,             \* out_dir: one entry per base name, its .jsonl lines and .cbor
    exp_ret,             \* the last maybe_export call: arguments and outcome
    exp_log,             \* monitor: time and signed bytes of every bundle written
    \* ---- verify_indicators.py
    ver_ret,             \* the last verifier run: its input and what it reported
    \* ---- threads calling AuditLog.append
    aud_lock,            \* AuditLog._lock: the thread holding it, if any
    aud_thr,             \* per thread: its position in append and its locals
    \* ---- SlidingWindow, one thread appending and one reading
    sw_capacity,         \* SlidingWindow.capacity
    sw_buffers,          \* SlidingWindow.buffers: per channel, oldest sample first
    sw_writer,           \* the append or clear call in progress
    sw_reader,           \* the ready / get_matrix call in progress or just returned
    sw_hist,             \* monitor: the samples appended since the last clear
    \* ---- HardwarePlantAdapter
    hw_state,            \* HardwarePlantAdapter._state
    hw_last_rx_ts,       \* HardwarePlantAdapter._last_rx_ts
    hw_ret,              \* what read_state returned, when it was the last call made
    hw_rx,               \* monitor: the messages received, with their arrival times
    \* ---- calls of the pure functions (arbiter, policy, metrics, indicators)
    pol_last_decision,   \* ControllerPolicy.last_decision
    fn_ret,              \* the last call: function, arguments, result
    \* ---- greedy_suggest_C
    gr,                  \* the arguments, the loop's locals and the steps taken
    \* ---- block_bootstrap_indices
    bb,                  \* the arguments, the loops' locals and the arrays built
    \* ---- Plant behind PlantAdapter
    plant,               \* Plant.s: E, T, R, demand, io, H, last_cmd
    pl_hist,             \* monitor: the calls made on the adapter, with their results
    \* ---- an omega window over the partition manager
    om,                  \* the window's phase and the flip counts read at its ends
    \* ---- the audit file across AuditLog instances, and the chain checks on it
    aud_base,            \* monitor: the lines the file held when each later instance was made
    chain_ret            \* what the chain checks returned, when they were the last call

auditVars == <<audit_counter, audit_prev_hash, audit_file, audit_call>>
lregVars  == <<lreg_entries, lreg_counter, lreg_invalidated, lreg_reason, lreg_ret,
               lreg_inval_at>>
dtVars    == <<dt_last_change_ts, dt_window_start_ts, dt_changes_in_window,
               dt_invalidated, sched_dt, sched_set_dt_calls, dt_hist>>
partVars  == <<pm_N, part_C, part_Ex, part_frozen, part_flips, pm_pending_C,
               pm_pending_streak, pm_last_M_db, pm_last_flip_info, pm_call,
               pm_k, pm_run>>
pairVars  == <<lreg2_entries, lreg2_invalidated>>
thrVars   == <<lreg_lock, lreg_thr, lreg_returned>>
expVars   == <<exp_now, exp_rate_hz, exp_last, exp_dir, exp_ret, exp_log>>
verVars   == <<ver_ret>>
audThrVars == <<aud_lock, aud_thr>>
swVars    == <<sw_capacity, sw_buffers, sw_writer, sw_reader, sw_hist>>
hwVars    == <<hw_state, hw_last_rx_ts, hw_ret, hw_rx>>
fnVars    == <<pol_last_decision, fn_ret>>
lateVars  == <<bb, plant, pl_hist, om, aud_base, chain_ret>>
rtVars    == <<audThrVars, swVars, hwVars, fnVars, gr, lateVars>>
extVars   == <<pairVars, thrVars, expVars, verVars, rtVars>>
vars == <<clock, auditVars, lregVars, dtVars, partVars, extVars>>

-----------------------------------------------------------------------------
(* Generic helpers *)

None == <<>>
Some(v) == <<v>>

Range(s) == {s[i] : i \in DOMAIN s}

Last(s) == s[Len(s)]

\* keys of a dict
Keys(d) == {d[i][1] : i \in DOMAIN d}

\* dict[k] for a key that is present
Get(d, k) == (CHOOSE i \in DOMAIN d : d[i][1] = k)
GetVal(d, k) == d[Get(d, k)][2]

\* Python floats: a finite value v, or NaN
Fin(v) == [k |-> "fin", v |-> v]
NaN == [k |-> "nan", v |-> 0]
\* infinity, and a finite value so large that a multiple of it is no longer finite
Inf == [k |-> "inf", v |-> 1]
Big(sign) == [k |-> "big", v |-> sign]

-----------------------------------------------------------------------------
(* Bounds *)

TicksPerSecond == 2
MaxAuditCalls == 3
MaxAuditClock == 1
MaxLregWrites == 3
MaxDtCalls == 4
MaxN == 2
MaxK == 2
MaxFlips == 2
ExpTicksPerMs == 2
MaxExportCalls == 3
MaxSwCalls == 4
MaxHwMsgs == 3
MaxMdbEighths == 136

-----------------------------------------------------------------------------
(* guardrails/audit.py *)

Genesis == <<"GENESIS">>

\* banned = {"L_loop", "L_ex", "ci_loop", "ci_ex"}
Banned == {"L_loop", "L_ex", "ci_loop", "ci_ex"}

\* The dict keys that occur in audit details, in the order json.dumps(sort_keys=True)
\* emits them (code-point order: upper case before lower case).
SortedKeys ==
    <<"L_ex", "L_loop", "M_db", "changes_this_hour", "ci_ex", "ci_loop", "min_gap_s",
      "new_dt", "old_dt", "policy_digest", "reason", "reason_human">>

\* json.dumps(details, sort_keys=True): the items in sorted key order
RECURSIVE SortItems(_, _)
SortItems(d, i) ==
    IF i > Len(SortedKeys) THEN <<>>
    ELSE (IF SortedKeys[i] \in Keys(d)
            THEN << <<SortedKeys[i], GetVal(d, SortedKeys[i])>> >>
            ELSE <<>>) \o SortItems(d, i + 1)

CanonicalDetails(d) == SortItems(d, 1)

\* raw = json.dumps({counter, ts, event, details, prev_hash}, sort_keys=True)
CanonicalJson(counter, ts, event, details, prev_hash) ==
    << <<"counter", counter>>, <<"details", CanonicalDetails(details)>>,
       <<"event", event>>, <<"prev_hash", prev_hash>>, <<"ts", ts>> >>

\* hashlib.sha256(raw).hexdigest(): a collision-free digest
Sha256(raw) == <<"sha256", raw>>

\* details = details or {}
DetailsOrEmpty(details) == IF details = None THEN <<>> ELSE details[1]

\* any(k in details for k in banned)
HasBanned(details) == Keys(details) \cap Banned # {}

\* the AuditRecord append builds under the lock
MutMakeRecord(counter, ts, event, details, prev_hash) ==
    [counter |-> counter, ts |-> ts, event |-> event, details |-> details,
     prev_hash |-> prev_hash,
     hash |-> Sha256(CanonicalJson(counter, ts, event, <<>>, prev_hash))]
MakeRecord(counter, ts, event, details, prev_hash) ==
    [counter |-> counter, ts |-> ts, event |-> event, details |-> details,
     prev_hash |-> prev_hash,
     hash |-> Sha256(CanonicalJson(counter, ts, event, details, prev_hash))]

\* whether append raises ValueError before building the record
MutAppendRaises(details) == FALSE
AppendRaises(details) == HasBanned(details)

\* AuditLog.append(event, details): the whole call, under self._lock
AuditAppend(event, detailsArg) ==
    LET details == DetailsOrEmpty(detailsArg)
        counter == audit_counter + 1
        rec == MakeRecord(counter, clock, event, details, audit_prev_hash)
    IN  /\ audit_counter' = counter
        /\ IF AppendRaises(details)
             THEN /\ UNCHANGED <<audit_prev_hash, audit_file>>
                  /\ audit_call' = [event |-> event, details |-> details,
                                    raised |-> TRUE]
             ELSE /\ audit_prev_hash' = rec.hash
                  /\ audit_file' = Append(audit_file, rec)
                  /\ audit_call' = [event |-> event, details |-> details,
                                    raised |-> FALSE]

AuditInit ==
    /\ audit_counter = 0
    /\ audit_prev_hash = Genesis
    /\ audit_file = <<>>
    /\ audit_call = [event |-> "", details |-> <<>>, raised |-> FALSE]

\* what the callers of append pass in
AuditEventInputs == {"window_measured", "refusal_event"}
AuditDetailsInputs ==
    { None, Some(<<>>), Some(<< <<"M_db", 1>> >>),
      Some(<< <<"L_loop", 1>> >>), Some(<< <<"L_ex", 1>> >>),
      Some(<< <<"ci_loop", 1>> >>), Some(<< <<"ci_ex", 1>> >>),
      Some(<< <<"M_db", 1>>, <<"ci_ex", 1>> >>) }

AuditAppendCall ==
    /\ audit_counter < MaxAuditCalls
    /\ \E event \in AuditEventInputs, details \in AuditDetailsInputs :
           AuditAppend(event, details)
    /\ UNCHANGED <<clock, lregVars, dtVars, partVars, extVars>>

\* time passes between calls
AuditTick ==
    /\ clock < MaxAuditClock
    /\ clock' = clock + 1
    /\ UNCHANGED <<auditVars, lregVars, dtVars, partVars, extVars>>

-----------------------------------------------------------------------------
(* attest/indicators.py *)

MqStepEighths == 2
MqMax == 63

\* round(x) of Python 3 for x = num / den, den > 0: half rounds to even
PyRound(num, den) ==
    LET q == num \div den
        r == num % den
    IN  IF 2 * r < den THEN q
        ELSE IF 2 * r > den THEN q + 1
        ELSE IF q % 2 = 0 THEN q ELSE q + 1

Max2(a, b) == IF a >= b THEN a ELSE b
Min2(a, b) == IF a <= b THEN a ELSE b

\* quantize_M(M_db) = int(max(0.0, min(63.0, round(M_db / 0.25)))), M_db in eighths of a dB
quantize_M(M_db) == Max2(0, Min2(MqMax, PyRound(M_db, MqStepEighths)))

\* the payload dict of build_and_sign
MutBuildPayload(derived, profile_id, last_sc1_pass) ==
    [nc1 |-> derived.nc1, sc1 |-> last_sc1_pass, mq |-> quantize_M(derived.M_db),
     counter |-> derived.counter, profile_id |-> profile_id,
     audit_prev_hash |-> audit_prev_hash, invalidated |-> FALSE]
BuildPayload(derived, profile_id, last_sc1_pass) ==
    [nc1 |-> derived.nc1, sc1 |-> last_sc1_pass, mq |-> quantize_M(derived.M_db),
     counter |-> derived.counter, profile_id |-> profile_id,
     audit_prev_hash |-> audit_prev_hash, invalidated |-> derived.invalidated]

-----------------------------------------------------------------------------
(* guardrails/lreg.py *)

\* LEntry values the measurement loop writes
LEntryInputs ==
    [L_loop : {5, 8}, L_ex : {1}, ci_loop : {<<4, 9>>}, ci_ex : {<<0, 2>>},
     M_db : {0 - 8, 72}, nc1_pass : BOOLEAN]

ReasonInputs == {"dt_change_rate_limit", "ci_halfwidth"}

\* LREG.latest() on a register holding the given entries
LatestOf(entries) == IF entries = <<>> THEN None ELSE Some(Last(entries))
Latest == LatestOf(lreg_entries)

\* the nc1 field of derive() for a latest entry ent
MutDeriveNc1(ent, invalidated) == ent.nc1_pass
DeriveNc1(ent, invalidated) == ent.nc1_pass /\ ~invalidated

\* the M_db field of derive() for a latest entry ent
MutDeriveMdb(ent) == ent.M_db + ent.L_ex
DeriveMdb(ent) == ent.M_db

\* LREG.derive() on a register holding the given entries and flag
DeriveOf(entries, invalidated) ==
    LET ent == LatestOf(entries)
    IN  IF ent = None
          THEN [nc1 |-> FALSE, M_db |-> 0, counter |-> 0, invalidated |-> invalidated]
          ELSE [nc1 |-> DeriveNc1(ent[1], invalidated), M_db |-> DeriveMdb(ent[1]),
                counter |-> Len(entries), invalidated |-> invalidated]
Derive == DeriveOf(lreg_entries, lreg_invalidated)

\* LREG.write(entry) -> idx
LregWrite ==
    /\ lreg_counter < MaxLregWrites
    /\ \E entry \in LEntryInputs :
         /\ lreg_entries' = Append(lreg_entries, entry)
         /\ lreg_counter' = lreg_counter + 1
         /\ lreg_ret' = [op |-> "write", val |-> lreg_counter]
    /\ UNCHANGED <<lreg_invalidated, lreg_reason, lreg_inval_at>>
    /\ UNCHANGED <<clock, auditVars, dtVars, partVars, extVars>>

\* LREG.invalidate(reason)
LregInvalidate ==
    /\ \E reason \in ReasonInputs :
         /\ lreg_invalidated' = TRUE
         /\ lreg_reason' = Some(reason)
    /\ lreg_ret' = [op |-> "invalidate", val |-> None]
    /\ lreg_inval_at' = IF lreg_inval_at = None THEN Some(Len(lreg_entries))
                        ELSE lreg_inval_at
    /\ UNCHANGED <<lreg_entries, lreg_counter>>
    /\ UNCHANGED <<clock, auditVars, dtVars, partVars, extVars>>

\* LREG.latest()
LregLatest ==
    /\ lreg_ret' = [op |-> "latest", val |-> Latest]
    /\ UNCHANGED <<lreg_entries, lreg_counter, lreg_invalidated, lreg_reason,
                   lreg_inval_at>>
    /\ UNCHANGED <<clock, auditVars, dtVars, partVars, extVars>>

\* LREG.derive()
LregDerive ==
    /\ lreg_ret' = [op |-> "derive", val |-> Derive]
    /\ UNCHANGED <<lreg_entries, lreg_counter, lreg_invalidated, lreg_reason,
                   lreg_inval_at>>
    /\ UNCHANGED <<clock, auditVars, dtVars, partVars, extVars>>

\* build_and_sign(priv, audit, lreg.derive(), cfg, last_sc1_pass): the payload
LregBuildAndSign ==
    /\ \E profile_id \in {0, 1}, last_sc1_pass \in BOOLEAN :
         lreg_ret' = [op |-> "build_and_sign",
                      val |-> BuildPayload(Derive, profile_id, last_sc1_pass)]
    /\ UNCHANGED <<lreg_entries, lreg_counter, lreg_invalidated, lreg_reason,
                   lreg_inval_at>>
    /\ UNCHANGED <<clock, auditVars, dtVars, partVars, extVars>>

\* the invalidated property
LregGetInvalidated ==
    /\ lreg_ret' = [op |-> "invalidated", val |-> lreg_invalidated]
    /\ UNCHANGED <<lreg_entries, lreg_counter, lreg_invalidated, lreg_reason,
                   lreg_inval_at>>
    /\ UNCHANGED <<clock, auditVars, dtVars, partVars, extVars>>

\* the reason property
LregGetReason ==
    /\ lreg_ret' = [op |-> "reason", val |-> lreg_reason]
    /\ UNCHANGED <<lreg_entries, lreg_counter, lreg_invalidated, lreg_reason,
                   lreg_inval_at>>
    /\ UNCHANGED <<clock, auditVars, dtVars, partVars, extVars>>

LregInit ==
    /\ lreg_entries = <<>>
    /\ lreg_counter = 0
    /\ lreg_invalidated = FALSE
    /\ lreg_reason = None
    /\ lreg_ret = [op |-> "init", val |-> None]
    /\ lreg_inval_at = None

\* ---- two registers driven by the same calls

\* entries for the first register, and for an entry the entries that differ from
\* it in raw fields only: in none, in L_loop, or in all four
PairEntryInputs == {e \in LEntryInputs : e.L_loop = 5}
RawVariants(e) ==
    {e, [e EXCEPT !.L_loop = 8],
     [e EXCEPT !.L_loop = 8, !.L_ex = 2, !.ci_loop = <<3, 9>>, !.ci_ex = <<0, 3>>]}

\* write(e1) on the first register and write(e2) on the second
PairWrite ==
    /\ lreg_counter < MaxLregWrites
    /\ \E e1 \in PairEntryInputs : \E e2 \in RawVariants(e1) :
         /\ lreg_entries' = Append(lreg_entries, e1)
         /\ lreg2_entries' = Append(lreg2_entries, e2)
         /\ lreg_counter' = lreg_counter + 1
         /\ lreg_ret' = [op |-> "write", val |-> lreg_counter]
    /\ UNCHANGED <<lreg_invalidated, lreg_reason, lreg_inval_at, lreg2_invalidated>>
    /\ UNCHANGED <<clock, auditVars, dtVars, partVars, rtVars, thrVars, expVars, verVars>>

\* invalidate(reason) on both registers
PairInvalidate ==
    /\ \E reason \in ReasonInputs :
         /\ lreg_invalidated' = TRUE
         /\ lreg2_invalidated' = TRUE
         /\ lreg_reason' = Some(reason)
    /\ lreg_ret' = [op |-> "invalidate", val |-> None]
    /\ lreg_inval_at' = IF lreg_inval_at = None THEN Some(Len(lreg_entries))
                        ELSE lreg_inval_at
    /\ UNCHANGED <<lreg_entries, lreg_counter, lreg2_entries>>
    /\ UNCHANGED <<clock, auditVars, dtVars, partVars, rtVars, thrVars, expVars, verVars>>

\* derive() on both registers
PairDerive ==
    /\ lreg_ret' = [op |-> "derive_pair",
                    val |-> <<DeriveOf(lreg_entries, lreg_invalidated),
                              DeriveOf(lreg2_entries, lreg2_invalidated)>>]
    /\ UNCHANGED <<lreg_entries, lreg_counter, lreg_invalidated, lreg_reason,
                   lreg_inval_at, lreg2_entries, lreg2_invalidated>>
    /\ UNCHANGED <<clock, auditVars, dtVars, partVars, rtVars, thrVars, expVars, verVars>>

PairInit ==
    /\ lreg2_entries = <<>>
    /\ lreg2_invalidated = FALSE

\* ---- LREG called from several threads

Threads == {"t1", "t2"}

\* entries the threads write
ThreadEntryInputs == {e \in LEntryInputs : e.L_loop = 5 /\ (e.nc1_pass <=> e.M_db = 72)}

ThrIdle == [pc |-> "idle"]

\* with self._lock: whether thread t may enter
MutLockFree == TRUE
LockFree == lreg_lock = None

\* self._entries[idx] = entry
StoreAt(entries, idx, entry) ==
    IF idx + 1 \in DOMAIN entries THEN [entries EXCEPT ![idx + 1] = entry]
    ELSE Append(entries, entry)

\* write: take the lock and read idx = self._counter
ThrWriteBegin(t) ==
    /\ lreg_thr[t].pc = "idle"
    /\ LockFree
    /\ lreg_counter < MaxLregWrites
    /\ \E entry \in ThreadEntryInputs :
         lreg_thr' = [lreg_thr EXCEPT ![t] = [pc |-> "w_store", entry |-> entry,
                                              idx |-> lreg_counter]]
    /\ lreg_lock' = Some(t)
    /\ UNCHANGED <<lreg_entries, lreg_counter, lreg_invalidated, lreg_reason,
                   lreg_ret, lreg_inval_at, lreg_returned>>
    /\ UNCHANGED <<clock, auditVars, dtVars, partVars, rtVars, pairVars, expVars, verVars>>

\* write: self._entries[idx] = entry
ThrWriteStore(t) ==
    /\ lreg_thr[t].pc = "w_store"
    /\ lreg_entries' = StoreAt(lreg_entries, lreg_thr[t].idx, lreg_thr[t].entry)
    /\ lreg_thr' = [lreg_thr EXCEPT ![t].pc = "w_end"]
    /\ UNCHANGED <<lreg_counter, lreg_invalidated, lreg_reason, lreg_ret,
                   lreg_inval_at, lreg_lock, lreg_returned>>
    /\ UNCHANGED <<clock, auditVars, dtVars, partVars, rtVars, pairVars, expVars, verVars>>

\* write: self._counter += 1, return idx, leave the lock
ThrWriteEnd(t) ==
    /\ lreg_thr[t].pc = "w_end"
    /\ lreg_counter' = lreg_counter + 1
    /\ lreg_lock' = None
    /\ lreg_returned' = Append(lreg_returned, [idx |-> lreg_thr[t].idx,
                                                entry |-> lreg_thr[t].entry,
                                                thread |-> t])
    /\ lreg_ret' = [op |-> "write", val |-> lreg_thr[t].idx]
    /\ lreg_thr' = [lreg_thr EXCEPT ![t] = ThrIdle]
    /\ UNCHANGED <<lreg_entries, lreg_invalidated, lreg_reason, lreg_inval_at>>
    /\ UNCHANGED <<clock, auditVars, dtVars, partVars, rtVars, pairVars, expVars, verVars>>

\* latest(), all of it under the lock
ThrLatest(t) ==
    /\ lreg_thr[t].pc = "idle"
    /\ LockFree
    /\ lreg_ret' = [op |-> "latest", val |-> Latest, k |-> Len(lreg_returned)]
    /\ UNCHANGED <<lreg_entries, lreg_counter, lreg_invalidated, lreg_reason,
                   lreg_inval_at, thrVars>>
    /\ UNCHANGED <<clock, auditVars, dtVars, partVars, rtVars, pairVars, expVars, verVars>>

\* invalidate(reason), all of it under the lock
ThrInvalidate(t) ==
    /\ lreg_thr[t].pc = "idle"
    /\ LockFree
    /\ lreg_invalidated' = TRUE
    /\ lreg_reason' = Some("ci_halfwidth")
    /\ lreg_ret' = [op |-> "invalidate", val |-> None]
    /\ lreg_inval_at' = IF lreg_inval_at = None THEN Some(Len(lreg_entries))
                        ELSE lreg_inval_at
    /\ UNCHANGED <<lreg_entries, lreg_counter, thrVars>>
    /\ UNCHANGED <<clock, auditVars, dtVars, partVars, rtVars, pairVars, expVars, verVars>>

\* derive: ent = self.latest(), under the lock; with no entry the result is
\* built at once from self._invalidated
ThrDeriveLatest(t) ==
    /\ lreg_thr[t].pc = "idle"
    /\ LockFree
    /\ lreg_thr' = [lreg_thr EXCEPT ![t] = [pc |-> "d_nc1", ent |-> Latest,
                                            start_k |-> Len(lreg_returned)]]
    /\ UNCHANGED <<lreg_entries, lreg_counter, lreg_invalidated, lreg_reason,
                   lreg_ret, lreg_inval_at, lreg_lock, lreg_returned>>
    /\ UNCHANGED <<clock, auditVars, dtVars, partVars, rtVars, pairVars, expVars, verVars>>

\* derive: "nc1": ent.nc1_pass and not self._invalidated, "M_db": ent.M_db; with
\* no entry the whole result, reading self._invalidated once
ThrDeriveNc1(t) ==
    /\ lreg_thr[t].pc = "d_nc1"
    /\ LET me == lreg_thr[t]
       IN  IF me.ent = None
             THEN /\ lreg_ret' = [op |-> "derive", start_k |-> me.start_k,
                                  val |-> DeriveOf(<<>>, lreg_invalidated)]
                  /\ lreg_thr' = [lreg_thr EXCEPT ![t] = ThrIdle]
             ELSE /\ lreg_thr' = [lreg_thr EXCEPT ![t] =
                                   [pc |-> "d_counter", start_k |-> me.start_k,
                                    nc1 |-> DeriveNc1(me.ent[1], lreg_invalidated),
                                    M_db |-> DeriveMdb(me.ent[1])]]
                  /\ UNCHANGED lreg_ret
    /\ UNCHANGED <<lreg_entries, lreg_counter, lreg_invalidated, lreg_reason,
                   lreg_inval_at, lreg_lock, lreg_returned>>
    /\ UNCHANGED <<clock, auditVars, dtVars, partVars, rtVars, pairVars, expVars, verVars>>

\* derive: "counter": len(self._entries)
ThrDeriveCounter(t) ==
    /\ lreg_thr[t].pc = "d_counter"
    /\ lreg_thr' = [lreg_thr EXCEPT ![t] =
                      [pc |-> "d_ret", start_k |-> lreg_thr[t].start_k,
                       nc1 |-> lreg_thr[t].nc1, M_db |-> lreg_thr[t].M_db,
                       counter |-> Len(lreg_entries)]]
    /\ UNCHANGED <<lreg_entries, lreg_counter, lreg_invalidated, lreg_reason,
                   lreg_ret, lreg_inval_at, lreg_lock, lreg_returned>>
    /\ UNCHANGED <<clock, auditVars, dtVars, partVars, rtVars, pairVars, expVars, verVars>>

\* derive: "invalidated": self._invalidated, and return
ThrDeriveReturn(t) ==
    /\ lreg_thr[t].pc = "d_ret"
    /\ lreg_ret' = [op |-> "derive", start_k |-> lreg_thr[t].start_k,
                    val |-> [nc1 |-> lreg_thr[t].nc1, M_db |-> lreg_thr[t].M_db,
                             counter |-> lreg_thr[t].counter,
                             invalidated |-> lreg_invalidated]]
    /\ lreg_thr' = [lreg_thr EXCEPT ![t] = ThrIdle]
    /\ UNCHANGED <<lreg_entries, lreg_counter, lreg_invalidated, lreg_reason,
                   lreg_inval_at, lreg_lock, lreg_returned>>
    /\ UNCHANGED <<clock, auditVars, dtVars, partVars, rtVars, pairVars, expVars, verVars>>

ThrInit ==
    /\ lreg_lock = None
    /\ lreg_thr = [t \in Threads |-> ThrIdle]
    /\ lreg_returned = <<>>

-----------------------------------------------------------------------------
(* attest/exporter.py, with build_and_sign of attest/indicators.py *)

\* Python values handed to the exporter: a dict (its items), a list or a tuple
\* (its elements), or a primitive
PyDict(items) == [t |-> "dict", v |-> items]
PyList(elems) == [t |-> "list", v |-> elems]
PyTuple(elems) == [t |-> "tuple", v |-> elems]
PyAtom(x) == [t |-> "atom", v |-> x]

\* list(d.values())
Values(items) == [i \in DOMAIN items |-> items[i][2]]

\* _assert_no_raw_lreg: whether the scan raises, given its stack
MutScanRaises(stack) ==
    /\ stack # <<>>
    /\ Last(stack).t = "dict"
    /\ Keys(Last(stack).v) \cap Banned # {}
RECURSIVE ScanRaises(_)
ScanRaises(stack) ==
    IF stack = <<>> THEN FALSE
    ELSE LET cur == Last(stack)
             rest == SubSeq(stack, 1, Len(stack) - 1)
         IN  IF cur.t = "dict"
               THEN IF Keys(cur.v) \cap Banned # {} THEN TRUE
                    ELSE ScanRaises(rest \o Values(cur.v))
             ELSE IF cur.t \in {"list", "tuple"}
               THEN ScanRaises(rest \o cur.v)
             ELSE ScanRaises(rest)

\* _assert_no_raw_lreg(obj)
AssertNoRawLregRaises(obj) == ScanRaises(<<obj>>)

\* one second and the start of the run, in exporter ticks
ExpSecond == 1000 * ExpTicksPerMs
ExpEpoch == 100 * ExpSecond

\* max(0.1, rate_hz)
EffectiveRate(rate_hz) == IF 10 * rate_hz[1] < rate_hz[2] THEN <<1, 10>> ELSE rate_hz

\* now - self._last < self.min_interval, with min_interval = 1.0 / max(0.1, rate_hz)
RateLimited(now) ==
    (now - exp_last) * EffectiveRate(exp_rate_hz)[1]
        < EffectiveRate(exp_rate_hz)[2] * ExpSecond

\* int(now * 1000), the number in the base name ind_<ms>
BaseOf(now) == now \div ExpTicksPerMs

\* the items of dict d whose keys are keys[i], keys[i+1], ..., in that order
RECURSIVE PickItems(_, _, _)
PickItems(d, keys, i) ==
    IF i > Len(keys) THEN <<>>
    ELSE (IF keys[i] \in Keys(d) THEN << <<keys[i], GetVal(d, keys[i])>> >> ELSE <<>>)
         \o PickItems(d, keys, i + 1)

\* the payload dict of build_and_sign as its items in insertion order
PayloadItems(p) ==
    << <<"nc1", p.nc1>>, <<"sc1", p.sc1>>, <<"mq", p.mq>>, <<"counter", p.counter>>,
       <<"profile_id", p.profile_id>>, <<"audit_prev_hash", p.audit_prev_hash>>,
       <<"invalidated", p.invalidated>> >>

\* the payload keys in the order json.dumps(sort_keys=True) emits them
PayloadSortedKeys ==
    <<"audit_prev_hash", "counter", "invalidated", "mq", "nc1", "profile_id", "sc1">>

\* cbor2.dumps(d): the encoding lists the items in the dict's order
CborDumps(items) == <<"cbor", items>>

\* priv.sign(msg) and pub.verify(sig, msg) for the matching key pair
Sign(msg) == <<"ed25519", msg>>
Verifies(sig, msg) == sig = <<"ed25519", msg>>

\* json.dumps(bundle, sort_keys=True) and json.loads of that line: the payload
\* comes back with its keys in sorted order
JsonLine(items, sig) == [payload |-> PickItems(items, PayloadSortedKeys, 1), sig |-> sig]

\* open(base + ".jsonl", "a") ... write(line); open(base + ".cbor", "wb") ... write(cbor)
WriteBundle(dir, base, line, cbor) ==
    IF \E i \in DOMAIN dir : dir[i].base = base
      THEN [i \in DOMAIN dir |->
              IF dir[i].base = base
                THEN [base |-> base, jsonl |-> Append(dir[i].jsonl, line), cbor |-> cbor]
                ELSE dir[i]]
      ELSE Append(dir, [base |-> base, jsonl |-> <<line>>, cbor |-> cbor])

\* bundle = {"payload": payload, "sig": sig.hex()}, every payload value a primitive
BundleDict(items, sig) ==
    PyDict(<< <<"payload", PyDict([i \in DOMAIN items |->
                                     <<items[i][1], PyAtom(items[i][2])>>])>>,
              <<"sig", PyAtom(sig)>> >>)

\* the derived dict: the four fields of lreg.derive() and what a caller added
DerivedDict(d, extras) ==
    PyDict(<< <<"nc1", PyAtom(d.nc1)>>, <<"M_db", PyAtom(d.M_db)>>,
              <<"counter", PyAtom(d.counter)>>,
              <<"invalidated", PyAtom(d.invalidated)>> >> \o extras)

\* IndicatorExporter.maybe_export(priv, audit, derived, cfg, last_sc1_pass),
\* derived being d with the items extras added
MaybeExport(d, extras, profile_id, last_sc1_pass) ==
    LET now == exp_now
        derived == DerivedDict(d, extras)
        items == PayloadItems(BuildPayload(d, profile_id, last_sc1_pass))
        cbor == CborDumps(items)
        sig == Sign(cbor)
        call == [op |-> "maybe_export", n |-> exp_ret.n + 1, derived |-> derived]
    IN  IF RateLimited(now)
          THEN /\ exp_ret' = call @@ [raised |-> FALSE, ok |-> FALSE, base |-> None]
               /\ UNCHANGED <<exp_last, exp_dir, exp_log>>
        ELSE IF AssertNoRawLregRaises(derived)
                \/ AssertNoRawLregRaises(BundleDict(items, sig))
          THEN /\ exp_last' = now
               /\ exp_ret' = call @@ [raised |-> TRUE, ok |-> FALSE, base |-> None]
               /\ UNCHANGED <<exp_dir, exp_log>>
          ELSE /\ exp_last' = now
               /\ exp_dir' = WriteBundle(exp_dir, BaseOf(now), JsonLine(items, sig), cbor)
               /\ exp_log' = Append(exp_log, [t |-> now, cbor |-> cbor])
               /\ exp_ret' = call @@ [raised |-> FALSE, ok |-> TRUE,
                                      base |-> Some(BaseOf(now))]

\* IndicatorExporter.__init__(out_dir, rate_hz)
ExpInitWith(rate_hz, now) ==
    /\ exp_now = now
    /\ exp_rate_hz = rate_hz
    /\ exp_last = 0
    /\ exp_dir = <<>>
    /\ exp_ret = [op |-> "init", n |-> 0]
    /\ exp_log = <<>>

\* rate_hz: the default 2 Hz, 0.05 Hz and 2000 Hz
RateInputs == {<<2, 1>>, <<1, 20>>, <<2000, 1>>}

ExpInit == ExpInitWith(<<2, 1>>, 0)

\* what callers pass as derived: a derive() result, alone or with an item added
\* that holds a banned key at the top, inside a list, or inside a dict in a tuple,
\* or that holds a banned name as a value only
ExportDerivedInputs == {[nc1 |-> TRUE, M_db |-> 72, counter |-> 1, invalidated |-> FALSE]}
ExtrasInputs ==
    { <<>>,
      << <<"L_ex", PyAtom(1)>> >>,
      << <<"dbg", PyList(<<PyAtom(0), PyDict(<< <<"ci_loop", PyAtom(1)>> >>)>>)>> >>,
      << <<"dbg", PyTuple(<<PyDict(<< <<"x", PyDict(<< <<"L_loop", PyAtom(1)>> >>)>> >>)>>)>> >>,
      << <<"note", PyList(<<PyAtom("ci_ex")>>)>> >> }

\* the moments at which the exporter is called: within one millisecond, a
\* millisecond, half a second, 10 s and 20 s after the first
ExpTimes ==
    {ExpEpoch + d : d \in {0, 1, ExpTicksPerMs - 1, ExpTicksPerMs, ExpSecond \div 2,
                           10 * ExpSecond, 20 * ExpSecond}}

ExpTick ==
    /\ \E t \in ExpTimes : t > exp_now /\ exp_now' = t
    /\ UNCHANGED <<exp_rate_hz, exp_last, exp_dir, exp_ret, exp_log>>
    /\ UNCHANGED <<clock, auditVars, lregVars, dtVars, partVars, rtVars, pairVars, thrVars,
                   verVars>>

ExpMaybeExport ==
    /\ exp_ret.n < MaxExportCalls
    /\ \E d \in ExportDerivedInputs, extras \in ExtrasInputs,
          last_sc1_pass \in BOOLEAN :
           MaybeExport(d, extras, 0, last_sc1_pass)
    /\ UNCHANGED <<exp_now, exp_rate_hz>>
    /\ UNCHANGED <<clock, auditVars, lregVars, dtVars, partVars, rtVars, pairVars, thrVars,
                   verVars>>

-----------------------------------------------------------------------------
(* scripts/verify_indicators.py *)

\* the first continuity check a line fails, "" when it passes all three
MutLineBreak(prev_counter, prev_hash, prev_ts, c, ph, ts) ==
    IF c # prev_counter + 1 THEN "counter_gap"
    ELSE IF prev_ts >= 0 /\ ts < prev_ts THEN "timestamp_regression"
    ELSE ""
LineBreak(prev_counter, prev_hash, prev_ts, c, ph, ts) ==
    IF c # prev_counter + 1 THEN "counter_gap"
    ELSE IF ph # prev_hash THEN "prev_hash_mismatch"
    ELSE IF prev_ts >= 0 /\ ts < prev_ts THEN "timestamp_regression"
    ELSE ""

\* the loop of audit_chain_status from line idx on; diag is None while no break
\* has been seen and then holds the first break and its line
RECURSIVE ChainScan(_, _, _, _, _, _, _)
ChainScan(file, idx, prev_counter, prev_hash, prev_ts, hashes, diag) ==
    IF idx > Len(file)
      THEN [chain_ok |-> diag = None, last_hash |-> prev_hash,
            last_counter |-> prev_counter, hashes |-> hashes, diag |-> diag]
      ELSE LET obj == file[idx]
               brk == LineBreak(prev_counter, prev_hash, prev_ts,
                                obj.counter, obj.prev_hash, obj.ts)
           IN  ChainScan(file, idx + 1, obj.counter, obj.hash, obj.ts,
                         Append(hashes, obj.hash),
                         IF diag = None /\ brk # "" THEN Some(<<brk, idx>>) ELSE diag)

\* audit_chain_status(audit_path); the file exists once a record has been written
AuditChainStatus(file) ==
    IF file = <<>>
      THEN [chain_ok |-> FALSE, last_hash |-> <<"">>, last_counter |-> 0,
            hashes |-> <<>>, diag |-> Some(<<"missing_audit", 0>>)]
      ELSE ChainScan(file, 1, 0, Genesis, 0 - 1, <<>>, None)

OrderedKeys == <<"nc1", "sc1", "mq", "counter", "profile_id", "audit_prev_hash">>

\* ordered_payload: the known keys in their fixed order, then the other keys sorted
Reconstruct(payload) ==
    PickItems(payload, OrderedKeys, 1)
    \o PickItems(payload,
                 SelectSeq(PayloadSortedKeys, LAMBDA k : k \notin Range(OrderedKeys)), 1)

\* the checks verify_indicators makes on one line of a .jsonl file whose .cbor
\* sidecar is present
LineChecks(line, cbor_sidecar, audit_hashes) ==
    [sig |-> Verifies(line.sig, cbor_sidecar),
     cbor_match |-> cbor_sidecar = CborDumps(Reconstruct(line.payload)),
     prev |-> GetVal(line.payload, "audit_prev_hash") \in Range(audit_hashes)]

\* verify_indicators(ind_dir, pub, audit_hashes): the counts
VerifyIndicators(dir, audit_hashes) ==
    LET lines == {l \in (DOMAIN dir) \X (1 .. MaxExportCalls) : l[2] \in DOMAIN dir[l[1]].jsonl}
        chk(l) == LineChecks(dir[l[1]].jsonl[l[2]], dir[l[1]].cbor, audit_hashes)
    IN  [total |-> Cardinality(lines),
         ok_sig |-> Cardinality({l \in lines : chk(l).sig}),
         ok_cbor_match |-> Cardinality({l \in lines : chk(l).cbor_match}),
         fails_cbor_match |-> Cardinality({l \in lines : ~chk(l).cbor_match}),
         ok_prev_in_audit |-> Cardinality({l \in lines : chk(l).prev})]

\* main(): the certificate line and the exit status
Main(file, dir) ==
    LET chain == AuditChainStatus(file)
        stats == VerifyIndicators(dir, chain.hashes)
        sidecar_count == stats.ok_cbor_match + stats.fails_cbor_match
        all_ok == /\ chain.chain_ok
                  /\ stats.total > 0
                  /\ stats.ok_sig = stats.total
                  /\ (sidecar_count = 0 \/ stats.fails_cbor_match = 0)
                  /\ stats.ok_prev_in_audit = stats.total
    IN  [chain_ok |-> chain.chain_ok, diag |-> chain.diag, stats |-> stats,
         status |-> IF all_ok THEN "CERT OK" ELSE "CERT FAIL",
         audit_chain |-> IF chain.chain_ok THEN "OK" ELSE "BROKEN",
         exit |-> IF all_ok THEN 0 ELSE 1]

\* the audit file with the hash field of record i replaced by h
AlterHash(file, i, h) == [file EXCEPT ![i].hash = h]

\* replacement hashes: a made-up digest, and the hash of the last record
ForgedHashes(file, i) == {Sha256(<<"forged">>), Last(file).hash} \ {file[i].hash}

\* a run of the verifier on the indicator directory and the audit file, the file
\* as written or with one record's hash altered
VerifierRun ==
    /\ \E alter \in {None} \cup {Some(<<i, h>>) : i \in DOMAIN audit_file,
                                   h \in UNION {ForgedHashes(audit_file, k) :
                                                 k \in DOMAIN audit_file}} :
         /\ alter # None => alter[1][2] \in ForgedHashes(audit_file, alter[1][1])
         /\ LET file == IF alter = None THEN audit_file
                        ELSE AlterHash(audit_file, alter[1][1], alter[1][2])
            IN  ver_ret' = [op |-> "verify", altered |-> alter, lines |-> Len(file),
                            out |-> Main(file, exp_dir)]
    /\ UNCHANGED <<clock, auditVars, lregVars, dtVars, partVars, rtVars, pairVars, thrVars,
                   expVars>>

VerInit == ver_ret = [op |-> "init"]

\* ---- an audited run that exports indicators and is verified afterwards

\* append calls of the run
AttestAppend ==
    /\ ver_ret.op = "init"
    /\ audit_counter < MaxAuditCalls
    /\ AuditAppend("window_measured", Some(<< <<"M_db", 1>> >>))
    /\ UNCHANGED <<clock, lregVars, dtVars, partVars, extVars>>

\* exports of the run, at the default rate
AttestExport ==
    /\ ver_ret.op = "init"
    /\ exp_ret.n < MaxExportCalls
    /\ \E d \in ExportDerivedInputs : MaybeExport(d, <<>>, 0, TRUE)
    /\ UNCHANGED <<exp_now, exp_rate_hz>>
    /\ UNCHANGED <<clock, auditVars, lregVars, dtVars, partVars, rtVars, pairVars, thrVars,
                   verVars>>

\* one tick of the clock passes during the run, on both readings of the time
AttestTick ==
    /\ ver_ret.op = "init"
    /\ clock < MaxAuditClock
    /\ clock' = clock + 1
    /\ exp_now' = exp_now + ExpSecond \div TicksPerSecond
    /\ UNCHANGED <<exp_rate_hz, exp_last, exp_dir, exp_ret, exp_log>>
    /\ UNCHANGED <<auditVars, lregVars, dtVars, partVars, rtVars, pairVars, thrVars, verVars>>

-----------------------------------------------------------------------------
(* guardrails/dt_guard.py, and the scheduler's set_dt it calls *)

\* DtGuardConfig defaults
max_changes_per_hour == 3
min_seconds_between_changes == 1
\* the window length of _reset_window_if_needed, in seconds
HourSeconds == 3600

Hour == HourSeconds * TicksPerSecond
MinGap == min_seconds_between_changes * TicksPerSecond

\* _reset_window_if_needed(now): the window start and change count it leaves
WindowAfterReset(now) ==
    IF now - dt_window_start_ts >= Hour
      THEN [start |-> now, changes |-> 0]
      ELSE [start |-> dt_window_start_ts, changes |-> dt_changes_in_window]

\* can_change(now), evaluated after the window reset w (its own second call of
\* _reset_window_if_needed finds the window already reset and changes nothing)
MutCanChange(now, w) ==
    /\ ~(w.changes > max_changes_per_hour)
    /\ ~(dt_last_change_ts # None /\ now - dt_last_change_ts[1] < MinGap)
CanChange(now, w) ==
    /\ ~(w.changes >= max_changes_per_hour)
    /\ ~(dt_last_change_ts # None /\ now - dt_last_change_ts[1] < MinGap)

\* if policy_digest:
Truthy(policy_digest) == policy_digest # None /\ policy_digest[1] # ""

\* the details of the dt_changed record
MutDtChangedDetails(prev, new_dt, policy_digest) ==
    << <<"old_dt", new_dt>>, <<"new_dt", new_dt>> >>
DtChangedDetails(prev, new_dt, policy_digest) ==
    << <<"old_dt", prev>>, <<"new_dt", new_dt>> >>
    \o (IF Truthy(policy_digest) THEN << <<"policy_digest", policy_digest[1]>> >>
        ELSE <<>>)

\* the details of the run_invalidated record
RunInvalidatedDetails(changes) ==
    << <<"reason", "dt_change_rate_limit">>, <<"changes_this_hour", changes>>,
       <<"min_gap_s", min_seconds_between_changes>>,
       <<"reason_human", "dt edit rate exceeded (limit 3/hour and min spacing enforced)">> >>

\* scheduler.set_dt(new_dt) -> old_dt: the value it returns
SetDtReturn == sched_dt

\* DeltaTGuard.change_dt(scheduler, new_dt, policy_digest)
ChangeDt(new_dt, policy_digest) ==
    LET now == clock
        w == WindowAfterReset(now)
    IN  /\ dt_window_start_ts' = w.start
        /\ IF ~CanChange(now, w)
             THEN /\ AuditAppend("run_invalidated", Some(RunInvalidatedDetails(w.changes)))
                  /\ dt_invalidated' = TRUE
                  /\ dt_changes_in_window' = w.changes
                  /\ UNCHANGED <<dt_last_change_ts, sched_dt, sched_set_dt_calls>>
                  /\ dt_hist' = Append(dt_hist, [now |-> now, ok |-> FALSE,
                                                 new_dt |-> new_dt])
             ELSE /\ sched_dt' = new_dt
                  /\ sched_set_dt_calls' = sched_set_dt_calls + 1
                  /\ AuditAppend("dt_changed",
                         Some(DtChangedDetails(SetDtReturn, new_dt, policy_digest)))
                  /\ dt_last_change_ts' = Some(now)
                  /\ dt_changes_in_window' = w.changes + 1
                  /\ UNCHANGED dt_invalidated
                  /\ dt_hist' = Append(dt_hist, [now |-> now, ok |-> TRUE,
                                                 new_dt |-> new_dt])

\* the (new_dt, policy_digest) pairs callers pass
DtCallInputs == { <<1, None>>, <<2, Some("p")>> }

\* the times at which the guard is exercised: just after construction, and around
\* the end of the guard's first hour
DtTimes ==
    {0, 1, MinGap, 2 * MinGap}
    \cup {Hour - 2 * MinGap - 1, Hour - MinGap - 1, Hour - 1, Hour, Hour - 1 + MinGap}

DtChangeCall ==
    /\ Len(dt_hist) < MaxDtCalls
    /\ \E in \in DtCallInputs : ChangeDt(in[1], in[2])
    /\ UNCHANGED <<clock, lregVars, partVars, extVars>>

DtTick ==
    /\ \E t \in DtTimes : t > clock /\ clock' = t
    /\ UNCHANGED <<auditVars, lregVars, dtVars, partVars, extVars>>

DtInit ==
    /\ dt_last_change_ts = None
    /\ dt_window_start_ts = 0
    /\ dt_changes_in_window = 0
    /\ dt_invalidated = FALSE
    /\ sched_dt = 1
    /\ sched_set_dt_calls = 0
    /\ dt_hist = <<>>

-----------------------------------------------------------------------------
(* lmeas/partition.py *)

\* sorted(S) for a set of integers
RECURSIVE SortedSeq(_)
SortedSeq(S) ==
    IF S = {} THEN <<>>
    ELSE LET m == CHOOSE x \in S : \A y \in S : x <= y
         IN  <<m>> \o SortedSeq(S \ {m})

\* list(sorted(set(xs)))
MutSortedSet(xs) == xs
SortedSet(xs) == SortedSeq(Range(xs))

\* [i for i in range(N) if i not in C]
MutComplement(N, C) == SortedSeq((0 .. (N - 1)) \ (Range(C) \ {0}))
Complement(N, C) == SortedSeq((0 .. (N - 1)) \ Range(C))

\* whether maybe_regrow returns at once
MutRegrowSuppressed == FALSE
RegrowSuppressed == part_frozen

\* the hysteresis state (pending, streak) after the newC != C branch
MutHysteresis(newC, suff) ==
    IF suff
      THEN [pending |-> Some(newC), streak |-> pm_pending_streak + 1]
      ELSE [pending |-> Some(newC), streak |-> 0]
Hysteresis(newC, suff) ==
    IF suff /\ (pm_pending_C = Some(newC) \/ pm_pending_C = None)
      THEN [pending |-> Some(newC), streak |-> pm_pending_streak + 1]
      ELSE [pending |-> Some(newC), streak |-> IF suff THEN 1 ELSE 0]

\* monitor: the run of latest unfrozen calls that carried the same suggestion with
\* sufficient gain (its length capped above every consecutive_required in use)
RunAfter(newC, suff) ==
    IF ~suff THEN [sug |-> newC, len |-> 0]
    ELSE IF pm_run.sug = newC
           THEN [sug |-> newC, len |-> IF pm_run.len > MaxK THEN pm_run.len
                                        ELSE pm_run.len + 1]
           ELSE [sug |-> newC, len |-> 1]

\* PartitionManager.maybe_regrow(suggested_C, delta_M_db, delta_M_min_db,
\*                               consecutive_required)
MaybeRegrow(suggested_C, delta_M_db, delta_M_min_db, consecutive_required) ==
    LET newC == SortedSet(suggested_C)
        suff == delta_M_db >= delta_M_min_db
        h == Hysteresis(newC, suff)
        call(flipped) == [op |-> "maybe_regrow", frozen |-> part_frozen,
                          flipped |-> flipped, C_before |-> part_C,
                          args |-> IF flipped THEN Some(<<suggested_C, delta_M_db>>)
                                   ELSE None]
    IN  IF RegrowSuppressed
          THEN /\ pm_call' = call(FALSE)
               /\ UNCHANGED <<pm_N, part_C, part_Ex, part_frozen, part_flips,
                              pm_pending_C, pm_pending_streak, pm_last_M_db,
                              pm_last_flip_info, pm_k, pm_run>>
        ELSE IF newC = part_C
          THEN /\ pm_pending_C' = None
               /\ pm_pending_streak' = 0
               /\ pm_call' = call(FALSE)
               /\ pm_run' = RunAfter(newC, suff)
               /\ UNCHANGED <<pm_N, part_C, part_Ex, part_frozen, part_flips,
                              pm_last_M_db, pm_last_flip_info, pm_k>>
        ELSE IF h.streak >= consecutive_required
          THEN /\ pm_last_flip_info' = Some([streak |-> h.streak,
                                             delta_M_db |-> delta_M_db,
                                             new_C |-> newC])
               /\ part_C' = newC
               /\ part_Ex' = Complement(pm_N, newC)
               /\ part_flips' = part_flips + 1
               /\ pm_pending_C' = None
               /\ pm_pending_streak' = 0
               /\ pm_call' = call(TRUE)
               /\ pm_run' = RunAfter(newC, suff)
               /\ UNCHANGED <<pm_N, part_frozen, pm_last_M_db, pm_k>>
          ELSE /\ pm_pending_C' = h.pending
               /\ pm_pending_streak' = h.streak
               /\ pm_call' = call(FALSE)
               /\ pm_run' = RunAfter(newC, suff)
               /\ UNCHANGED <<pm_N, part_C, part_Ex, part_frozen, part_flips,
                              pm_last_M_db, pm_last_flip_info, pm_k>>

NoCall(op) == [op |-> op, frozen |-> FALSE, flipped |-> FALSE, C_before |-> <<>>,
               args |-> None]

\* PartitionManager.freeze(on)
PartFreeze ==
    /\ \E on \in BOOLEAN : part_frozen' = on
    /\ pm_call' = NoCall("freeze")
    /\ UNCHANGED <<pm_N, part_C, part_Ex, part_flips, pm_pending_C, pm_pending_streak,
                   pm_last_M_db, pm_last_flip_info, pm_k, pm_run>>
    /\ UNCHANGED <<clock, auditVars, lregVars, dtVars, extVars>>

\* PartitionManager.update_current_M(M_db)
PartUpdateCurrentM ==
    /\ \E M_db \in {72} : pm_last_M_db' = Some(M_db)
    /\ pm_call' = NoCall("update_current_M")
    /\ UNCHANGED <<pm_N, part_C, part_Ex, part_frozen, part_flips, pm_pending_C,
                   pm_pending_streak, pm_last_flip_info, pm_k, pm_run>>
    /\ UNCHANGED <<clock, auditVars, lregVars, dtVars, extVars>>

\* index lists over {0..N-1}: every subset in ascending order, the two-element
\* lists out of order, and the lists with a repeated index
IndexLists(N) ==
    {SortedSeq(S) : S \in SUBSET (0 .. (N - 1))}
    \cup {<<p[2], p[1]>> : p \in {q \in (0 .. (N - 1)) \X (0 .. (N - 1)) : q[1] <= q[2]}}

\* delta_M_db and delta_M_min_db, in half dB (the default minimum is 0.5 dB)
DeltaMInputs == {0, 1, 2}
DeltaMMinInputs == {1}

\* maybe_regrow with arguments that vary from call to call
PartMaybeRegrow ==
    /\ part_flips < MaxFlips
    /\ \E sug \in IndexLists(pm_N), dM \in DeltaMInputs, dMin \in DeltaMMinInputs,
          k \in 0 .. MaxK :
           MaybeRegrow(sug, dM, dMin, k)
    /\ UNCHANGED <<clock, auditVars, lregVars, dtVars, extVars>>

\* index lists that may name an index which is not a channel: the ascending
\* lists over {0..N-1}, as they are or with -1 or N added
AnyIndexLists(N) ==
    {SortedSeq(S \cup X) : S \in SUBSET (0 .. (N - 1)), X \in {{}, {0 - 1}, {N}}}

\* maybe_regrow called with any list of integers as the suggestion
PartMaybeRegrowAny ==
    /\ part_flips < MaxFlips
    /\ \E sug \in AnyIndexLists(pm_N), dM \in DeltaMInputs, dMin \in DeltaMMinInputs,
          k \in 0 .. MaxK :
           MaybeRegrow(sug, dM, dMin, k)
    /\ UNCHANGED <<clock, auditVars, lregVars, dtVars, extVars>>

\* maybe_regrow with consecutive_required and delta_M_min_db fixed for the run
PartMaybeRegrowFixed ==
    /\ part_flips < MaxFlips
    /\ \E sug \in IndexLists(pm_N), dM \in DeltaMInputs, dMin \in DeltaMMinInputs :
           MaybeRegrow(sug, dM, dMin, pm_k)
    /\ UNCHANGED <<clock, auditVars, lregVars, dtVars, extVars>>

\* PartitionManager.__init__(N_signals, seed_C)
PartInitWith(N, seed_C, k) ==
    /\ pm_N = N
    /\ part_C = SortedSet(seed_C)
    /\ part_Ex = Complement(N, SortedSet(seed_C))
    /\ part_frozen = FALSE
    /\ part_flips = 0
    /\ pm_pending_C = None
    /\ pm_pending_streak = 0
    /\ pm_last_M_db = None
    /\ pm_last_flip_info = None
    /\ pm_call = NoCall("init")
    /\ pm_k = k
    /\ pm_run = [sug |-> SortedSet(seed_C), len |-> 0]

PartInit == \E N \in 1 .. MaxN : \E seed_C \in IndexLists(N) : PartInitWith(N, seed_C, 0)

PartInitFixed ==
    \E N \in 1 .. MaxN : \E seed_C \in IndexLists(N) : \E k \in 1 .. MaxK :
        PartInitWith(N, seed_C, k)

PartIdle == PartInitWith(1, <<>>, 0)

-----------------------------------------------------------------------------
(* The run loop: the guard, the register and the exporter of one run *)

\* the moments of the run at which something is called
RunTimes == {k * MinGap : k \in 0 .. 3}

\* the entry the measurement loop writes
RunEntryInputs == {e \in LEntryInputs : e.L_loop = 5 /\ e.M_db = 72 /\ e.nc1_pass}

\* guard.change_dt(new_dt); a refusal invalidates the run in the register
RunChangeDt ==
    /\ Len(dt_hist) < MaxDtCalls
    /\ ChangeDt(2, None)
    /\ IF ~Last(dt_hist').ok
         THEN /\ lreg_invalidated' = TRUE
              /\ lreg_reason' = Some("dt_change_rate_limit")
              /\ lreg_inval_at' = IF lreg_inval_at = None THEN Some(Len(lreg_entries))
                                  ELSE lreg_inval_at
         ELSE UNCHANGED <<lreg_invalidated, lreg_reason, lreg_inval_at>>
    /\ UNCHANGED <<lreg_entries, lreg_counter, lreg_ret>>
    /\ UNCHANGED <<clock, partVars, extVars>>

\* lreg.write(entry) for the next window, once the last window was offered for export
RunWrite ==
    /\ lreg_counter < MaxLregWrites
    /\ exp_ret.n = lreg_counter
    /\ \E entry \in RunEntryInputs :
         /\ lreg_entries' = Append(lreg_entries, entry)
         /\ lreg_counter' = lreg_counter + 1
         /\ lreg_ret' = [op |-> "write", val |-> lreg_counter]
    /\ UNCHANGED <<lreg_invalidated, lreg_reason, lreg_inval_at>>
    /\ UNCHANGED <<clock, auditVars, dtVars, partVars, extVars>>

\* exporter.maybe_export(priv, audit, lreg.derive(), cfg, last_sc1_pass), once
\* for each window written
RunExport ==
    /\ exp_ret.n < lreg_counter
    /\ MaybeExport(Derive, <<>>, 0, TRUE)
    /\ lreg_ret' = [op |-> "derive", val |-> Derive]
    /\ UNCHANGED <<lreg_entries, lreg_counter, lreg_invalidated, lreg_reason,
                   lreg_inval_at>>
    /\ UNCHANGED <<exp_now, exp_rate_hz>>
    /\ UNCHANGED <<clock, auditVars, dtVars, partVars, rtVars, pairVars, thrVars, verVars>>

\* time passes, on both readings of the clock
RunTick ==
    /\ \E t \in RunTimes :
         /\ t > clock
         /\ clock' = t
         /\ exp_now' = ExpEpoch + (t * ExpSecond) \div TicksPerSecond
    /\ UNCHANGED <<exp_rate_hz, exp_last, exp_dir, exp_ret, exp_log>>
    /\ UNCHANGED <<auditVars, lregVars, dtVars, partVars, rtVars, pairVars, thrVars, verVars>>

-----------------------------------------------------------------------------
(* guardrails/audit.py: append called from several threads *)

\* what each thread passes as details: its own mark, or a banned key
AudThrDetails(t) ==
    { << <<"M_db", IF t = "t1" THEN 1 ELSE 2>> >>, << <<"L_ex", 1>> >> }

\* with self._lock: the lock can be taken
MutAuditLockFree == TRUE
AuditLockFree == aud_lock = None

\* append enters the lock, bumps the counter, reads the time and checks the keys;
\* the raise leaves the with block, which releases the lock
AudThrBegin(t) ==
    /\ aud_thr[t].pc = "idle"
    /\ AuditLockFree
    /\ audit_counter < MaxAuditCalls
    /\ \E details \in AudThrDetails(t) :
         /\ audit_counter' = audit_counter + 1
         /\ IF AppendRaises(details)
              THEN aud_lock' = None /\ UNCHANGED aud_thr
              ELSE /\ aud_lock' = Some(t)
                   /\ aud_thr' = [aud_thr EXCEPT ![t] =
                                    [pc |-> "hash", ts |-> clock, details |-> details]]
    /\ UNCHANGED <<audit_prev_hash, audit_file, audit_call>>
    /\ UNCHANGED <<clock, lregVars, dtVars, partVars, lateVars, pairVars, thrVars, expVars, verVars,
                   swVars, hwVars, fnVars, gr>>

\* raw, h and rec are built from self._counter and self._prev_hash; self._prev_hash = h
AudThrHash(t) ==
    /\ aud_thr[t].pc = "hash"
    /\ LET rec == MakeRecord(audit_counter, aud_thr[t].ts, "window_measured",
                             aud_thr[t].details, audit_prev_hash)
       IN  /\ audit_prev_hash' = rec.hash
           /\ aud_thr' = [aud_thr EXCEPT ![t] = [pc |-> "write", rec |-> rec]]
    /\ UNCHANGED <<audit_counter, audit_file, audit_call, aud_lock>>
    /\ UNCHANGED <<clock, lregVars, dtVars, partVars, lateVars, pairVars, thrVars, expVars, verVars,
                   swVars, hwVars, fnVars, gr>>

\* the line is written and the file closed; return rec leaves the lock
AudThrWrite(t) ==
    /\ aud_thr[t].pc = "write"
    /\ audit_file' = Append(audit_file, aud_thr[t].rec)
    /\ aud_lock' = None
    /\ aud_thr' = [aud_thr EXCEPT ![t] = [pc |-> "idle"]]
    /\ UNCHANGED <<audit_counter, audit_prev_hash, audit_call>>
    /\ UNCHANGED <<clock, lregVars, dtVars, partVars, lateVars, pairVars, thrVars, expVars, verVars,
                   swVars, hwVars, fnVars, gr>>

AudThrInit ==
    /\ aud_lock = None
    /\ aud_thr = [t \in Threads |-> [pc |-> "idle"]]

-----------------------------------------------------------------------------
(* runtime/windows.py: SlidingWindow, used by an appending and a reading thread *)

\* channel_order
SwOrder == <<"E", "T">>

\* the samples the telemetry loop appends: full, stale (NaN), and one without "E"
SwSamples ==
    { << <<"E", Fin(1)>>, <<"T", Fin(1)>> >>, << <<"E", NaN>>, <<"T", NaN>> >>,
      << <<"T", Fin(3)>> >> }

\* float(sample.get(k, 0.0))
SampleGet(sample, k) == IF k \in Keys(sample) THEN GetVal(sample, k) ELSE Fin(0)

\* deque(maxlen=capacity).append(x)
MutDequeAppend(dq, x, maxlen) == Append(dq, x)
DequeAppend(dq, x, maxlen) ==
    IF maxlen = 0 THEN <<>>
    ELSE IF Len(dq) >= maxlen THEN Append(Tail(dq), x) ELSE Append(dq, x)

\* a step of the writer thread is seen by a get_matrix call in progress
SwDisturb == IF sw_reader.pc = "matrix" THEN [sw_reader EXCEPT !.quiet = FALSE]
             ELSE sw_reader

\* append(sample): one iteration of "for k in self.order" per step
SwAppendStep ==
    /\ \/ /\ sw_writer.pc = "idle"
          /\ sw_writer.n < MaxSwCalls
          /\ \E sample \in SwSamples :
               sw_writer' = [pc |-> "append", n |-> sw_writer.n + 1, i |-> 1,
                             sample |-> sample]
          /\ UNCHANGED <<sw_buffers, sw_hist, sw_reader>>
       \/ /\ sw_writer.pc = "append"
          /\ LET k == SwOrder[sw_writer.i]
             IN  sw_buffers' = [sw_buffers EXCEPT ![k] =
                     DequeAppend(@, SampleGet(sw_writer.sample, k), sw_capacity)]
          /\ IF sw_writer.i < Len(SwOrder)
               THEN /\ sw_writer' = [sw_writer EXCEPT !.i = @ + 1]
                    /\ UNCHANGED sw_hist
               ELSE /\ sw_writer' = [pc |-> "idle", n |-> sw_writer.n]
                    /\ sw_hist' = Append(sw_hist, sw_writer.sample)
          /\ sw_reader' = SwDisturb
    /\ UNCHANGED sw_capacity
    /\ UNCHANGED <<clock, auditVars, lregVars, dtVars, partVars, lateVars, pairVars, thrVars,
                   expVars, verVars, audThrVars, hwVars, fnVars, gr>>

\* clear()
SwClear ==
    /\ sw_writer.pc = "idle"
    /\ sw_writer.n < MaxSwCalls
    /\ sw_writer' = [sw_writer EXCEPT !.n = @ + 1]
    /\ sw_buffers' = [k \in Range(SwOrder) |-> <<>>]
    /\ sw_hist' = <<>>
    /\ sw_reader' = SwDisturb
    /\ UNCHANGED sw_capacity
    /\ UNCHANGED <<clock, auditVars, lregVars, dtVars, partVars, lateVars, pairVars, thrVars,
                   expVars, verVars, audThrVars, hwVars, fnVars, gr>>

\* all(len(self.buffers[k]) == self.capacity for k in self.order)
Ready == \A k \in Range(SwOrder) : Len(sw_buffers[k]) = sw_capacity

\* ready(), called by the reading thread
SwReady ==
    /\ sw_reader.pc = "idle"
    /\ sw_reader' = [pc |-> "idle", op |-> "ready", val |-> Ready,
                     quiet |-> sw_writer.pc = "idle", hist |-> sw_hist]
    /\ UNCHANGED <<sw_capacity, sw_buffers, sw_writer, sw_hist>>
    /\ UNCHANGED <<clock, auditVars, lregVars, dtVars, partVars, lateVars, pairVars, thrVars,
                   expVars, verVars, audThrVars, hwVars, fnVars, gr>>

\* get_matrix(): the ready() test, then one np.asarray(self.buffers[k]) per step;
\* np.column_stack raises ValueError on columns of different lengths
SwGetMatrix ==
    /\ \/ /\ sw_reader.pc = "idle"
          /\ sw_reader' =
               IF Ready
                 THEN [pc |-> "matrix", op |-> "get_matrix", cols |-> <<>>,
                       quiet |-> sw_writer.pc = "idle", hist |-> sw_hist]
                 ELSE [pc |-> "idle", op |-> "get_matrix", raised |-> "RuntimeError",
                       quiet |-> sw_writer.pc = "idle", hist |-> sw_hist]
       \/ /\ sw_reader.pc = "matrix"
          /\ LET cols == Append(sw_reader.cols, sw_buffers[SwOrder[Len(sw_reader.cols) + 1]])
             IN  sw_reader' =
                   IF Len(cols) < Len(SwOrder)
                     THEN [sw_reader EXCEPT !.cols = cols]
                     ELSE [pc |-> "idle", op |-> "get_matrix",
                           raised |-> IF \A c \in DOMAIN cols : Len(cols[c]) = Len(cols[1])
                                        THEN "" ELSE "ValueError",
                           cols |-> cols, quiet |-> sw_reader.quiet,
                           hist |-> sw_reader.hist]
    /\ UNCHANGED <<sw_capacity, sw_buffers, sw_writer, sw_hist>>
    /\ UNCHANGED <<clock, auditVars, lregVars, dtVars, partVars, lateVars, pairVars, thrVars,
                   expVars, verVars, audThrVars, hwVars, fnVars, gr>>

\* SlidingWindow(capacity, channel_order)
SwInitWith(capacity) ==
    /\ sw_capacity = capacity
    /\ sw_buffers = [k \in Range(SwOrder) |-> <<>>]
    /\ sw_writer = [pc |-> "idle", n |-> 0]
    /\ sw_reader = [pc |-> "idle", op |-> "init"]
    /\ sw_hist = <<>>

-----------------------------------------------------------------------------
(* plant/hw_adapter.py: telemetry ingestion and read_state *)

\* state_keys, and telemetry_timeout_sec = 2.0 in ticks
HwStateKeys == {"E", "T"}
HwTimeout == 2 * TicksPerSecond

\* JSON values that are not numbers: null, and a string float() rejects
JsonNull == [k |-> "null", v |-> 0]
JsonStr == [k |-> "str", v |-> 0]

\* what arrives on the transport: bytes that do not decode to a JSON object, and
\* objects carrying some of the state keys
HwMessages ==
    { [dict |-> FALSE, items |-> <<>>],
      [dict |-> TRUE, items |-> << <<"E", Fin(1)>>, <<"T", Fin(1)>> >>],
      [dict |-> TRUE, items |-> << <<"E", Fin(2)>> >>],
      [dict |-> TRUE, items |-> << <<"E", JsonNull>>, <<"T", Fin(2)>> >>],
      [dict |-> TRUE, items |-> << <<"E", JsonStr>> >>] }

\* the keys _ingest_bytes puts into parsed: present, not None, accepted by float()
Parsed(msg) ==
    IF ~msg.dict THEN {}
    ELSE {k \in HwStateKeys \cap Keys(msg.items) : GetVal(msg.items, k).k \in {"fin", "nan"}}

\* _ingest_bytes(b)
HwIngest ==
    /\ Len(hw_rx) < MaxHwMsgs
    /\ \E msg \in HwMessages :
         IF Parsed(msg) # {}
           THEN /\ hw_state' = [k \in HwStateKeys |->
                                  IF k \in Parsed(msg) THEN GetVal(msg.items, k)
                                  ELSE hw_state[k]]
                /\ hw_last_rx_ts' = clock
                /\ hw_rx' = Append(hw_rx, [ts |-> clock, msg |-> msg])
           ELSE /\ hw_rx' = Append(hw_rx, [ts |-> clock, msg |-> msg])
                /\ UNCHANGED <<hw_state, hw_last_rx_ts>>
    /\ hw_ret' = [op |-> "none"]
    /\ UNCHANGED <<clock, auditVars, lregVars, dtVars, partVars, lateVars, pairVars, thrVars,
                   expVars, verVars, audThrVars, swVars, fnVars, gr>>

\* self._last_rx_ts and (time.time() - self._last_rx_ts) > self._telemetry_timeout_sec
MutStale(now) == FALSE
Stale(now) == hw_last_rx_ts # 0 /\ now - hw_last_rx_ts > HwTimeout

\* read_state()
HwReadState ==
    /\ hw_ret' = [op |-> "read_state",
                  val |-> IF Stale(clock) THEN [k \in HwStateKeys |-> NaN] ELSE hw_state]
    /\ UNCHANGED <<hw_state, hw_last_rx_ts, hw_rx>>
    /\ UNCHANGED <<clock, auditVars, lregVars, dtVars, partVars, lateVars, pairVars, thrVars,
                   expVars, verVars, audThrVars, swVars, fnVars, gr>>

\* the times of the calls: close together, and the timeout or just more than it apart
HwTimes == {1, 2, 1 + HwTimeout, 2 + HwTimeout}

\* time passes between calls
HwTick ==
    /\ \E t \in HwTimes : t > clock /\ clock' = t
    /\ hw_ret' = [op |-> "none"]
    /\ UNCHANGED <<hw_state, hw_last_rx_ts, hw_rx>>
    /\ UNCHANGED <<auditVars, lregVars, dtVars, partVars, lateVars, pairVars, thrVars,
                   expVars, verVars, audThrVars, swVars, fnVars, gr>>

\* HardwarePlantAdapter.__init__
HwInit ==
    /\ hw_state = [k \in HwStateKeys |-> NaN]
    /\ hw_last_rx_ts = 0
    /\ hw_ret = [op |-> "none"]
    /\ hw_rx = <<>>

-----------------------------------------------------------------------------
(* arbiter/refusal.py, arbiter/policy.py, lmeas/metrics.py, attest/indicators.py: *)
(* functions of their arguments.  E, T, R are counted in hundredths.          *)

\* RefusalArbiter(Mmin_db=3.0, soc_floor=0.15, temp_ceiling=0.85)
Mmin_db == 24
soc_floor == 15
temp_ceiling == 85

\* RefusalArbiter.decide(state, predicted_M_db, risky_cmd); comparisons with NaN are false
MutDecide(state, predicted_M_db, risky_cmd) ==
    LET E == IF "E" \in Keys(state) THEN GetVal(state, "E") ELSE Fin(0)
        T == IF "T" \in Keys(state) THEN GetVal(state, "T") ELSE Fin(0)
    IN  IF risky_cmd = None \/ risky_cmd = Some("")
          THEN [accept |-> TRUE, reason |-> "no_cmd", trefuse_ms |-> 1]
        ELSE IF T.k = "fin" /\ T.v >= temp_ceiling
          THEN [accept |-> FALSE, reason |-> "overheat", trefuse_ms |-> 2]
        ELSE IF E.k = "fin" /\ E.v <= soc_floor
          THEN [accept |-> FALSE, reason |-> "soc_floor", trefuse_ms |-> 2]
        ELSE IF predicted_M_db.k = "fin" /\ predicted_M_db.v < Mmin_db
          THEN [accept |-> FALSE, reason |-> "M_margin", trefuse_ms |-> 2]
        ELSE [accept |-> TRUE, reason |-> "ok", trefuse_ms |-> 1]
Decide(state, predicted_M_db, risky_cmd) ==
    LET E == IF "E" \in Keys(state) THEN GetVal(state, "E") ELSE Fin(0)
        T == IF "T" \in Keys(state) THEN GetVal(state, "T") ELSE Fin(0)
    IN  IF risky_cmd = None \/ risky_cmd = Some("")
          THEN [accept |-> TRUE, reason |-> "no_cmd", trefuse_ms |-> 1]
        ELSE IF E.k = "fin" /\ E.v <= soc_floor
          THEN [accept |-> FALSE, reason |-> "soc_floor", trefuse_ms |-> 2]
        ELSE IF T.k = "fin" /\ T.v >= temp_ceiling
          THEN [accept |-> FALSE, reason |-> "overheat", trefuse_ms |-> 2]
        ELSE IF predicted_M_db.k = "fin" /\ predicted_M_db.v < Mmin_db
          THEN [accept |-> FALSE, reason |-> "M_margin", trefuse_ms |-> 2]
        ELSE [accept |-> TRUE, reason |-> "ok", trefuse_ms |-> 1]

\* ControllerPolicy.compute(state, predicted_M_db, risky_cmd): state["E"], state["T"]
\* and state["R"] raise KeyError on a missing key; throttle, cool and repair are in
\* two-hundredths
Compute(state, predicted_M_db, risky_cmd) ==
    IF ~({"E", "T", "R"} \subseteq Keys(state))
      THEN [raised |-> "KeyError"]
    ELSE
      LET E == GetVal(state, "E")
          T == GetVal(state, "T")
          R == GetVal(state, "R")
          dec == Decide(state, predicted_M_db, risky_cmd)
      IN  [raised |-> "",
           throttle |-> IF E.k = "fin" /\ E.v < 40 THEN 2 * Min2(100, 90 - E.v) ELSE 0,
           cool |-> IF T.k = "fin" /\ T.v > 60 THEN Min2(200, (T.v - 60) * 3) ELSE 0,
           repair |-> IF /\ R.k = "fin" /\ R.v < 60
                         /\ E.k = "fin" /\ E.v > 50
                         /\ T.k = "fin" /\ T.v < 70
                        THEN Min2(200, (60 - R.v) * 3) ELSE 0,
           accept_cmd |-> dec.accept,
           dec |-> dec]

\* plant states handed to the arbiter: telemetry may lack keys or be stale (NaN)
ArbStates ==
    { << <<"E", e>>, <<"T", t>>, <<"R", Fin(50)>> >> :
          e \in {Fin(10), Fin(15), Fin(16), NaN}, t \in {Fin(84), Fin(85), NaN} }
    \cup { << <<"T", t>>, <<"R", Fin(50)>> >> : t \in {Fin(84), Fin(85)} }
    \cup { << <<"E", e>>, <<"R", Fin(50)>> >> : e \in {Fin(15), Fin(16)} }
    \cup { << <<"E", Fin(16)>>, <<"T", Fin(84)>> >>, <<>> }

FnDecide ==
    /\ \E state \in ArbStates, M \in {Fin(23), Fin(24), NaN},
          cmd \in {None, Some(""), Some("hard_shutdown")} :
         fn_ret' = [op |-> "decide", state |-> state, M |-> M, cmd |-> cmd,
                    out |-> Decide(state, M, cmd)]
    /\ UNCHANGED pol_last_decision
    /\ UNCHANGED <<clock, auditVars, lregVars, dtVars, partVars, lateVars, pairVars, thrVars,
                   expVars, verVars, audThrVars, swVars, hwVars, gr>>

FnCompute ==
    /\ \E state \in ArbStates, M \in {Fin(23), Fin(24), NaN},
          cmd \in {None, Some(""), Some("hard_shutdown")} :
         LET out == Compute(state, M, cmd)
         IN  /\ fn_ret' = [op |-> "compute", state |-> state, M |-> M, cmd |-> cmd,
                           out |-> out, last_before |-> pol_last_decision]
             /\ pol_last_decision' = IF out.raised = "" THEN Some(out.dec)
                                     ELSE pol_last_decision
    /\ UNCHANGED <<clock, auditVars, lregVars, dtVars, partVars, lateVars, pairVars, thrVars,
                   expVars, verVars, audThrVars, swVars, hwVars, gr>>

\* sc1_evaluate(L_loop_baseline, L_loop_trough, L_loop_recovered, M_post, epsilon,
\* tau_rec_measured, Mmin, tau_max); epsilon is <<numerator, denominator>>, delta is
\* num / den.  NaN <= 0 is false, and max(0.0, x) is x only when x > 0.0.
sc1_evaluate(baseline, trough, recovered, M_post, epsilon, tau_rec_measured, Mmin, tau_max) ==
    IF baseline.k = "fin" /\ baseline.v <= 0
      THEN [pass |-> FALSE, delta |-> [num |-> 1, den |-> 1], tau_rec |-> Inf,
            M_post |-> M_post]
    ELSE
      LET delta == IF /\ baseline.k = "fin" /\ trough.k = "fin"
                      /\ baseline.v - trough.v > 0
                     THEN [num |-> baseline.v - trough.v, den |-> baseline.v]
                     ELSE [num |-> 0, den |-> 1]
          ok == /\ delta.num * epsilon[2] <= epsilon[1] * delta.den
                /\ tau_rec_measured.k = "fin" /\ tau_rec_measured.v <= tau_max
                /\ M_post.k = "fin" /\ M_post.v >= Mmin
      IN  [pass |-> ok, delta |-> delta, tau_rec |-> tau_rec_measured, M_post |-> M_post]

\* measured L_loop values
Sc1Loops == {Fin(-1), Fin(0), Fin(3), Fin(4), Fin(5), NaN}

FnSc1Evaluate ==
    /\ \E baseline \in Sc1Loops, trough \in Sc1Loops, M_post \in {Fin(23), Fin(24)},
          tau \in {Fin(1), Fin(2), NaN} :
         fn_ret' = [op |-> "sc1_evaluate", baseline |-> baseline, trough |-> trough,
                    M_post |-> M_post, epsilon |-> <<1, 4>>, tau |-> tau,
                    Mmin |-> Mmin_db, tau_max |-> 1,
                    out |-> sc1_evaluate(baseline, trough, trough, M_post, <<1, 4>>,
                                         tau, Mmin_db, 1)]
    /\ UNCHANGED pol_last_decision
    /\ UNCHANGED <<clock, auditVars, lregVars, dtVars, partVars, lateVars, pairVars, thrVars,
                   expVars, verVars, audThrVars, swVars, hwVars, gr>>

\* quantize_M on a float: M_db / 0.25 of a finite M_db beyond a quarter of the largest
\* double is infinite, and round() of an infinity raises OverflowError
QuantizeMFloat(M_db) ==
    IF M_db.k = "fin" THEN [raised |-> "", q |-> quantize_M(M_db.v)]
    ELSE IF M_db.k = "nan" THEN [raised |-> "ValueError"]
    ELSE [raised |-> "OverflowError"]

\* finite M_db values: eighths of a dB around the coded range, and the very large ones
MdbInputs == {Fin(v) : v \in (-8) .. MaxMdbEighths} \cup {Big(1), Big(-1)}

\* build_and_sign with derived["M_db"] = M_db: the payload, unless quantize_M raises
FnBuildAndSign ==
    /\ \E M_db \in MdbInputs :
         LET q == QuantizeMFloat(M_db)
         IN  fn_ret' =
               [op |-> "build_and_sign", M_db |-> M_db, raised |-> q.raised,
                payload |-> IF q.raised = ""
                              THEN Some(BuildPayload([nc1 |-> TRUE, M_db |-> M_db.v,
                                                      counter |-> 1, invalidated |-> FALSE],
                                                     0, TRUE))
                              ELSE None]
    /\ UNCHANGED pol_last_decision
    /\ UNCHANGED <<clock, auditVars, lregVars, dtVars, partVars, lateVars, pairVars, thrVars,
                   expVars, verVars, audThrVars, swVars, hwVars, gr>>

FnInit ==
    /\ pol_last_decision = None
    /\ fn_ret = [op |-> "init"]

-----------------------------------------------------------------------------
(* lmeas/partition.py: greedy_suggest_C, one iteration of its loop per step. *)
(* The estimator is any callable: each call returns some L_loop.             *)

\* L_loop values an estimator returns
GrLoops == {0, 1, 2}

\* the current C handed in: sorted lists, and lists out of order or with repeats
GrCInputs(N) == {SortedSeq(S) : S \in SUBSET (0 .. (N - 1))} \cup {<<1, 0>>, <<0, 0>>}

\* kappa is not None and len(C_cur) >= int(kappa)
MutKappaReached(kappa, C_cur) == FALSE
KappaReached(kappa, C_cur) == kappa # None /\ Len(C_cur) >= kappa[1]

\* the candidate loop over sorted(Ex_cur) from position i on: best is None (best_idx is
\* None, best_score is -inf) or <<best_idx, best_score>>; L[ex_idx] is what the
\* estimator returned for C_cur + [ex_idx]
RECURSIVE MutScanBest(_, _, _, _, _, _)
MutScanBest(Ex_cur, L, L_loop_base, lam, i, best) ==
    IF i > Len(Ex_cur) THEN best
    ELSE LET score == (L[Ex_cur[i]] - L_loop_base) - lam
         IN  MutScanBest(Ex_cur, L, L_loop_base, lam, i + 1,
                         IF best = None \/ score >= best[1][2]
                           THEN Some(<<Ex_cur[i], score>>) ELSE best)
RECURSIVE ScanBest(_, _, _, _, _, _)
ScanBest(Ex_cur, L, L_loop_base, lam, i, best) ==
    IF i > Len(Ex_cur) THEN best
    ELSE LET score == (L[Ex_cur[i]] - L_loop_base) - lam
         IN  ScanBest(Ex_cur, L, L_loop_base, lam, i + 1,
                      IF best = None \/ score > best[1][2]
                        THEN Some(<<Ex_cur[i], score>>) ELSE best)

\* one pass of "while True": break on the cap, else score every candidate and either
\* break or commit the best one; after the loop the final estimate and the return
GreedyStep ==
    /\ ~gr.done
    /\ IF KappaReached(gr.kappa, gr.C_cur)
         THEN \E delta_M_db \in {-1, 1} :
                gr' = [gr EXCEPT !.done = TRUE, !.delta_M_db = delta_M_db,
                                 !.last = [stop |-> "kappa"]]
         ELSE \E L \in [Range(Complement(gr.N, gr.C_cur)) -> GrLoops] :
                LET Ex_cur == Complement(gr.N, gr.C_cur)
                    best == ScanBest(Ex_cur, L, gr.L_loop_base, gr.lam, 1, None)
                    seen == [stop |-> "", C_cur |-> gr.C_cur, Ex_cur |-> Ex_cur,
                             L |-> L, L_loop_base |-> gr.L_loop_base, best |-> best]
                IN  IF best = None \/ best[1][2] < gr.theta
                      THEN \E delta_M_db \in {-1, 1} :
                             gr' = [gr EXCEPT !.done = TRUE, !.delta_M_db = delta_M_db,
                                              !.last = [seen EXCEPT !.stop = "theta"]]
                      ELSE gr' = [gr EXCEPT
                                    !.C_cur = SortedSet(Append(gr.C_cur, best[1][1])),
                                    !.L_loop_base = L[best[1][1]],
                                    !.added = Append(gr.added, best[1][1]),
                                    !.step_gains = Append(gr.step_gains, best[1][2]),
                                    !.last = seen]
    /\ UNCHANGED <<clock, auditVars, lregVars, dtVars, partVars, lateVars, pairVars, thrVars,
                   expVars, verVars, audThrVars, swVars, hwVars, fnVars>>

\* the call greedy_suggest_C(X, C, Ex, lam=, theta=, kappa=) with X of N columns, up to
\* the baseline estimate
GreedyInitWith(N, C, L_loop_base, lam, theta, kappa) ==
    gr = [N |-> N, C |-> C, C_cur |-> SortedSet(C), L_loop_base |-> L_loop_base,
          lam |-> lam, theta |-> theta, kappa |-> kappa, added |-> <<>>,
          step_gains |-> <<>>, last |-> [stop |-> "none"], done |-> FALSE,
          delta_M_db |-> 0]

GreedyInit == GreedyInitWith(1, <<>>, 0, 0, 0, None)

-----------------------------------------------------------------------------
(* runtime/windows.py: block_bootstrap_indices *)

\* the largest n + draws of a call
MaxBbSize == 5

\* take = min(block, n - i)
MutTake(block, n, i) == block
Take(block, n, i) == Min2(block, n - i)

\* sel = (np.arange(take) + start) % n
Sel(take, start, n) == [k \in 1 .. take |-> ((k - 1) + start) % n]

\* np.concatenate(out)
RECURSIVE Concatenate(_)
Concatenate(out) == IF out = <<>> THEN <<>> ELSE Head(out) \o Concatenate(Tail(out))

\* block_bootstrap_indices(n, block, draws), one loop test per step: the for loop
\* starts a draw or returns, the while loop adds a block at a start drawn by
\* np.random.randint(0, n) or ends the draw
BootstrapStep ==
    /\ \/ /\ bb.pc = "for"
          /\ bb' = IF Len(bb.idxs) < bb.draws
                     THEN [bb EXCEPT !.pc = "while", !.i = 0, !.out = <<>>]
                     ELSE [bb EXCEPT !.pc = "returned"]
       \/ /\ bb.pc = "while"
          /\ IF bb.i < bb.n
               THEN \E start \in 0 .. (bb.n - 1) :
                      LET take == Take(bb.block, bb.n, bb.i)
                      IN  bb' = [bb EXCEPT !.out = Append(@, Sel(take, start, bb.n)),
                                          !.i = @ + take]
               ELSE bb' = [bb EXCEPT !.idxs = Append(@, Concatenate(bb.out)),
                                    !.pc = "for"]
    /\ UNCHANGED <<clock, auditVars, lregVars, dtVars, partVars, pairVars, thrVars,
                   expVars, verVars, audThrVars, swVars, hwVars, fnVars, gr,
                   plant, pl_hist, om, aud_base, chain_ret>>

\* the call block_bootstrap_indices(n, block, draws) is entered
BootstrapInitWith(n, block, draws) ==
    bb = [n |-> n, block |-> block, draws |-> draws, idxs |-> <<>>, i |-> 0,
          out |-> <<>>, pc |-> "for"]

BbInit == BootstrapInitWith(1, 1, 0)

-----------------------------------------------------------------------------
(* plant/models.py and plant/adapter.py *)

\* The plant's floats are counted in units of 1e-4: PlantUnit is 1.0.  A product
\* is rounded down to the unit.
PlantUnit == 10000
MaxPlantCalls == 4

\* max(lo, min(hi, x))
Clamp(lo, hi, x) == Max2(lo, Min2(hi, x))

\* Action(throttle, cool, repair, accept_cmd)
Action(throttle, cool, repair, accept_cmd) ==
    [throttle |-> throttle, cool |-> cool, repair |-> repair, accept_cmd |-> accept_cmd]

\* whether step applies the pending command
ShutdownApplied(s, action) == s.last_cmd = "hard_shutdown" /\ action.accept_cmd

\* Plant.step(action) with the PlantParams defaults; every random.uniform(-a, a)
\* of the call returns u * a
Step(s, action, u) ==
    LET demand == Clamp(0, PlantUnit, s.demand + u * 200)
        io == Clamp(0, PlantUnit, s.io + u * 200)
        effective_demand ==
            (demand * (10 * PlantUnit - 7 * action.throttle)) \div (10 * PlantUnit)
        dE == s.H - effective_demand \div 50 - action.cool \div 50
              - action.repair \div 50 + u * 20
        E == Clamp(0, PlantUnit, s.E + dE)
        dT == effective_demand \div 20 - (8 * action.cool) \div 100 - 100 + u * 20
        T == Clamp(0, PlantUnit, s.T + dT)
        dR == (action.repair \div 50 + u * 10) - effective_demand \div 200
        R == Clamp(0, PlantUnit, s.R + dR)
    IN  IF ShutdownApplied(s, action)
          THEN [s EXCEPT !.demand = demand, !.io = io,
                         !.E = Max2(0, E - 3000),
                         !.T = Min2(PlantUnit, T + 2000),
                         !.R = Max2(0, R - 2000),
                         !.last_cmd = "none"]
          ELSE [s EXCEPT !.demand = demand, !.io = io, !.E = E, !.T = T, !.R = R]

\* Plant.apply_power_sag(drop)
MutApplyPowerSag(s, drop) ==
    LET old == s.H
        new == Max2(0, (old * (PlantUnit - drop)) \div PlantUnit)
    IN  [s |-> [s EXCEPT !.H = new], ret |-> << <<"H_old", old>>, <<"H_new", new>> >>]
ApplyPowerSag(s, drop) ==
    LET d == Clamp(0, 9500, drop)
        old == s.H
        new == Max2(0, (old * (PlantUnit - d)) \div PlantUnit)
    IN  [s |-> [s EXCEPT !.H = new], ret |-> << <<"H_old", old>>, <<"H_new", new>> >>]

\* Plant.spike_ingress(mult)
SpikeIngress(s, mult) ==
    LET m == Max2(PlantUnit, mult)
        demand == Clamp(0, PlantUnit, (s.demand * m) \div PlantUnit)
        io == Clamp(0, PlantUnit, (s.io * m) \div PlantUnit)
    IN  [s |-> [s EXCEPT !.demand = demand, !.io = io],
         ret |-> << <<"demand", demand>>, <<"io", io>> >>]

\* Plant.inject_soc(delta, zero_harvest)
InjectSoc(s, delta, zero_harvest) ==
    LET E == Clamp(0, PlantUnit, s.E + delta)
    IN  [s |-> [s EXCEPT !.E = E, !.H = IF zero_harvest THEN 0 ELSE @],
         ret |-> << <<"E", E>>,
                    <<"zero_harvest", IF zero_harvest THEN PlantUnit ELSE 0>> >>]

\* the names the callers of apply_omega pass, with their keyword arguments
\* (None: the keyword is left out and the default applies)
OmegaCalls ==
    {<<"power_sag", a>> : a \in {None, Some(20000), Some(0 - 1000)}}
    \cup {<<"ingress_flood", a>> : a \in {None, Some(5000)}}
    \cup {<<"command_conflict", None>>, <<"unknown", None>>}
    \cup {<<"exogenous_subsidy", a>> : a \in {None, Some(FALSE)}}

\* PlantAdapter.apply_omega(name, **kwargs) under the lock: the plant afterwards,
\* whether the call raised ValueError, and the summary returned
ApplyOmega(s, name, arg) ==
    IF name = "power_sag"
      THEN LET r == ApplyPowerSag(s, IF arg = None THEN 3000 ELSE arg[1])
           IN  [s |-> r.s, raised |-> FALSE, ret |-> r.ret]
    ELSE IF name = "ingress_flood"
      THEN LET r == SpikeIngress(s, IF arg = None THEN 25000 ELSE arg[1])
           IN  [s |-> r.s, raised |-> FALSE, ret |-> r.ret]
    ELSE IF name = "command_conflict"
      THEN [s |-> [s EXCEPT !.last_cmd = "hard_shutdown"], raised |-> FALSE,
            ret |-> << <<"cmd", "hard_shutdown">> >>]
    ELSE IF name = "exogenous_subsidy"
      THEN LET r == InjectSoc(s, 500, IF arg = None THEN TRUE ELSE arg[1])
           IN  [s |-> r.s, raised |-> FALSE, ret |-> r.ret]
    ELSE [s |-> s, raised |-> TRUE, ret |-> <<>>]

\* a call of apply_omega
PlApplyOmega ==
    /\ Len(pl_hist) < MaxPlantCalls
    /\ \E call \in OmegaCalls :
         LET r == ApplyOmega(plant, call[1], call[2])
         IN  /\ plant' = r.s
             /\ pl_hist' = Append(pl_hist, [op |-> "apply_omega", name |-> call[1],
                                            raised |-> r.raised, ret |-> r.ret,
                                            accept_cmd |-> FALSE, applied |-> FALSE,
                                            pending |-> plant.last_cmd])
    /\ UNCHANGED <<clock, auditVars, lregVars, dtVars, partVars, pairVars, thrVars,
                   expVars, verVars, audThrVars, swVars, hwVars, fnVars, gr,
                   bb, om, aud_base, chain_ret>>

\* the actions the controller writes: idle actuators with the command accepted
\* or refused, and full actuation with the command refused
PlantActions ==
    {Action(0, 0, 0, TRUE), Action(0, 0, 0, FALSE),
     Action(PlantUnit, PlantUnit, PlantUnit, FALSE)}

\* PlantAdapter.write_actuators(action) under the lock: one step of the plant
PlWriteActuators ==
    /\ Len(pl_hist) < MaxPlantCalls
    /\ \E action \in PlantActions, u \in {0 - 1, 1} :
         /\ plant' = Step(plant, action, u)
         /\ pl_hist' = Append(pl_hist, [op |-> "write_actuators", name |-> "",
                                        raised |-> FALSE, ret |-> <<>>,
                                        accept_cmd |-> action.accept_cmd,
                                        applied |-> ShutdownApplied(plant, action),
                                        pending |-> plant.last_cmd])
    /\ UNCHANGED <<clock, auditVars, lregVars, dtVars, partVars, pairVars, thrVars,
                   expVars, verVars, audThrVars, swVars, hwVars, fnVars, gr,
                   bb, om, aud_base, chain_ret>>

\* PlantAdapter(): Plant() with PlantState(), the dataclass defaults
PlantInit ==
    /\ plant = [E |-> 7000, T |-> 3000, R |-> 8000, demand |-> 2000, io |-> 1000,
                H |-> 150, last_cmd |-> "none"]
    /\ pl_hist = <<>>

-----------------------------------------------------------------------------
(* an omega window over the partition manager *)

\* guardrails/smelltests.py: invalid_flip_during_omega(flips_before, flips_after,
\* cfg), with forbid standing for cfg.forbid_partition_flip_during_omega
MutInvalidFlipDuringOmega(flips_before, flips_after, forbid) ==
    forbid /\ (flips_after - flips_before) >= 0

invalid_flip_during_omega(flips_before, flips_after, forbid) ==
    IF ~forbid THEN FALSE ELSE (flips_after - flips_before) > 0

\* the window: phase is "before", "active" or "after"; flips_before is the flip
\* count read when the perturbation starts; thawed tells whether the manager was
\* unfrozen at some moment of the window; held tells whether a call of
\* maybe_regrow in the window was suppressed that would have committed otherwise;
\* ret is the smell test's answer at the stop
OmWindow(phase, flips_before, thawed, held, forbid, ret) ==
    [phase |-> phase, flips_before |-> flips_before, thawed |-> thawed,
     held |-> held, forbid |-> forbid, ret |-> ret]

OmInit == om = OmWindow("before", 0, FALSE, FALSE, FALSE, FALSE)

\* the perturbation starts: the flip count is read
OmegaStart ==
    /\ om.phase = "before"
    /\ om' = OmWindow("active", part_flips, ~part_frozen, FALSE, FALSE, FALSE)
    /\ UNCHANGED <<clock, auditVars, lregVars, dtVars, partVars, pairVars, thrVars,
                   expVars, verVars, audThrVars, swVars, hwVars, fnVars, gr, bb, plant,
                   pl_hist, aud_base, chain_ret>>

\* PartitionManager.freeze(on), before, in or after the window
OmFreeze ==
    /\ \E on \in BOOLEAN :
         /\ part_frozen' = on
         /\ om' = [om EXCEPT !.thawed = @ \/ (om.phase = "active" /\ ~on)]
    /\ pm_call' = NoCall("freeze")
    /\ UNCHANGED <<pm_N, part_C, part_Ex, part_flips, pm_pending_C, pm_pending_streak,
                   pm_last_M_db, pm_last_flip_info, pm_k, pm_run>>
    /\ UNCHANGED <<clock, auditVars, lregVars, dtVars, pairVars, thrVars, expVars,
                   verVars, audThrVars, swVars, hwVars, fnVars, gr, bb, plant, pl_hist,
                   aud_base, chain_ret>>

\* PartitionManager.maybe_regrow, before, in or after the window, with the run's
\* consecutive_required
OmMaybeRegrow ==
    /\ part_flips < MaxFlips
    /\ \E sug \in IndexLists(pm_N), dM \in {0, 1}, dMin \in DeltaMMinInputs :
         LET newC == SortedSet(sug)
             h == Hysteresis(newC, dM >= dMin)
             would == newC # part_C /\ h.streak >= pm_k
         IN  /\ MaybeRegrow(sug, dM, dMin, pm_k)
             /\ om' = [om EXCEPT !.held = @ \/ (om.phase = "active" /\ part_frozen
                                                 /\ would)]
    /\ UNCHANGED <<clock, auditVars, lregVars, dtVars, pairVars, thrVars, expVars,
                   verVars, audThrVars, swVars, hwVars, fnVars, gr, bb, plant, pl_hist,
                   aud_base, chain_ret>>

\* the perturbation stops: the flip count is read again and the smell test asked
OmegaStop ==
    /\ om.phase = "active"
    /\ \E forbid \in BOOLEAN :
         om' = [om EXCEPT !.phase = "after", !.forbid = forbid,
                          !.ret = invalid_flip_during_omega(om.flips_before,
                                                            part_flips, forbid)]
    /\ UNCHANGED <<clock, auditVars, lregVars, dtVars, partVars, pairVars, thrVars,
                   expVars, verVars, audThrVars, swVars, hwVars, fnVars, gr, bb, plant,
                   pl_hist, aud_base, chain_ret>>

-----------------------------------------------------------------------------
(* the audit file across AuditLog instances, and the chain checks on it *)

\* the largest number of AuditLog instances made on the file after the first
MaxReopens == 1

\* AuditLog(path) on the path of the running log: __init__ does not read the file
AuditReopen ==
    /\ Len(aud_base) < MaxReopens
    /\ audit_counter' = 0
    /\ audit_prev_hash' = Genesis
    /\ audit_call' = [event |-> "", details |-> <<>>, raised |-> FALSE]
    /\ aud_base' = Append(aud_base, Len(audit_file))
    /\ UNCHANGED <<audit_file, chain_ret>>
    /\ UNCHANGED <<clock, lregVars, dtVars, partVars, pairVars, thrVars, expVars, verVars,
                   audThrVars, swVars, hwVars, fnVars, gr, bb, plant, pl_hist, om>>

\* append calls of the runs: open(self.path, "a") adds the line to the file
AuditFileAppend ==
    /\ Len(audit_file) < MaxAuditCalls
    /\ \E event \in {"run_header", "window_measured"},
          details \in {None, Some(<< <<"M_db", 1>> >>)} : AuditAppend(event, details)
    /\ UNCHANGED <<clock, lregVars, dtVars, partVars, extVars>>

\* the loop of audit_chain_broken from line idx on
RECURSIVE BrokenFrom(_, _, _, _, _)
BrokenFrom(file, idx, prev_counter, prev_hash, prev_ts) ==
    IF idx > Len(file) THEN FALSE
    ELSE LET obj == file[idx]
         IN  IF obj.counter # prev_counter + 1 THEN TRUE
             ELSE IF obj.prev_hash # prev_hash THEN TRUE
             ELSE IF prev_ts >= 0 /\ obj.ts < prev_ts THEN TRUE
             ELSE BrokenFrom(file, idx + 1, obj.counter, obj.hash, obj.ts)

\* audit_chain_broken(audit_path); the file exists once a record has been written
audit_chain_broken(file) ==
    IF file = <<>> THEN TRUE ELSE BrokenFrom(file, 1, 0, Genesis, 0 - 1)

\* the audit file with the event, or the details, of record i replaced
AlterContent(file, i, field) ==
    IF field = "event" THEN [file EXCEPT ![i].event = "altered"]
    ELSE [file EXCEPT ![i].details = << <<"M_db", 2>> >>]

\* both chain checks run on the audit file, the file as written or with the
\* event or details of one record altered
ChainCheck ==
    /\ \E alter \in {None} \cup {Some(<<i, f>>) : i \in DOMAIN audit_file,
                                  f \in {"event", "details"}} :
         LET file == IF alter = None THEN audit_file
                     ELSE AlterContent(audit_file, alter[1][1], alter[1][2])
         IN  chain_ret' = [op |-> "check", altered |-> alter,
                           content_changed |-> file # audit_file,
                           broken_as_written |-> audit_chain_broken(audit_file),
                           broken |-> audit_chain_broken(file),
                           chain_ok |-> AuditChainStatus(file).chain_ok]
    /\ UNCHANGED <<clock, auditVars, lregVars, dtVars, partVars, pairVars, thrVars,
                   expVars, verVars, audThrVars, swVars, hwVars, fnVars, gr,
                   bb, plant, pl_hist, om, aud_base>>

ChkInit == aud_base = <<>> /\ chain_ret = [op |-> "none"]

-----------------------------------------------------------------------------
(* Specifications *)

\* the components that a specification leaves idle
LateIdle == BbInit /\ PlantInit /\ OmInit /\ ChkInit
RtIdle == AudThrInit /\ SwInitWith(1) /\ HwInit /\ FnInit /\ GreedyInit /\ LateIdle
ExtIdle == PairInit /\ ThrInit /\ ExpInit /\ VerInit /\ RtIdle

SpecAuditInit == clock = 0 /\ AuditInit /\ LregInit /\ DtInit /\ PartIdle /\ ExtIdle
SpecAuditNext == AuditAppendCall \/ AuditTick
SpecAudit == SpecAuditInit /\ [][SpecAuditNext]_vars

SpecLregInit == clock = 0 /\ AuditInit /\ LregInit /\ DtInit /\ PartIdle /\ ExtIdle
SpecLregNext == LregWrite \/ LregInvalidate \/ LregLatest \/ LregDerive
                \/ LregBuildAndSign \/ LregGetInvalidated \/ LregGetReason
SpecLreg == SpecLregInit /\ [][SpecLregNext]_vars

SpecLregPairInit == clock = 0 /\ AuditInit /\ LregInit /\ DtInit /\ PartIdle /\ ExtIdle
SpecLregPairNext == PairWrite \/ PairInvalidate \/ PairDerive
SpecLregPair == SpecLregPairInit /\ [][SpecLregPairNext]_vars

SpecLregThreadsInit ==
    clock = 0 /\ AuditInit /\ LregInit /\ DtInit /\ PartIdle /\ ExtIdle
SpecLregThreadsNext ==
    \E t \in Threads :
        \/ ThrWriteBegin(t) \/ ThrWriteStore(t) \/ ThrWriteEnd(t)
        \/ ThrLatest(t) \/ ThrInvalidate(t)
        \/ ThrDeriveLatest(t) \/ ThrDeriveNc1(t) \/ ThrDeriveCounter(t)
        \/ ThrDeriveReturn(t)
SpecLregThreads == SpecLregThreadsInit /\ [][SpecLregThreadsNext]_vars

SpecExportInit ==
    /\ clock = 0 /\ AuditInit /\ LregInit /\ DtInit /\ PartIdle
    /\ PairInit /\ ThrInit /\ VerInit /\ RtIdle
    /\ \E rate_hz \in RateInputs : ExpInitWith(rate_hz, ExpEpoch)
SpecExportNext == ExpTick \/ ExpMaybeExport
SpecExport == SpecExportInit /\ [][SpecExportNext]_vars

SpecAttestInit ==
    /\ clock = 0 /\ AuditInit /\ LregInit /\ DtInit /\ PartIdle
    /\ PairInit /\ ThrInit /\ VerInit /\ RtIdle
    /\ ExpInitWith(<<2, 1>>, ExpEpoch)
SpecAttestNext == AttestAppend \/ AttestTick \/ AttestExport \/ VerifierRun
SpecAttest == SpecAttestInit /\ [][SpecAttestNext]_vars

SpecRunInit ==
    /\ clock = 0 /\ AuditInit /\ LregInit /\ DtInit /\ PartIdle
    /\ PairInit /\ ThrInit /\ VerInit /\ RtIdle
    /\ ExpInitWith(<<2, 1>>, ExpEpoch)
SpecRunNext == RunChangeDt \/ RunWrite \/ RunExport \/ RunTick
SpecRun == SpecRunInit /\ [][SpecRunNext]_vars

SpecDtInit == clock = 0 /\ AuditInit /\ LregInit /\ DtInit /\ PartIdle /\ ExtIdle
SpecDtNext == DtChangeCall \/ DtTick
SpecDt == SpecDtInit /\ [][SpecDtNext]_vars

SpecPartInit == clock = 0 /\ AuditInit /\ LregInit /\ DtInit /\ PartInit /\ ExtIdle
SpecPartNext == PartMaybeRegrow \/ PartFreeze \/ PartUpdateCurrentM
SpecPart == SpecPartInit /\ [][SpecPartNext]_vars

SpecPartHystInit == clock = 0 /\ AuditInit /\ LregInit /\ DtInit /\ PartInitFixed /\ ExtIdle
SpecPartHystNext == PartMaybeRegrowFixed \/ PartFreeze \/ PartUpdateCurrentM
SpecPartHyst == SpecPartHystInit /\ [][SpecPartHystNext]_vars

\* the components that the specifications below leave idle
CoreIdle == AuditInit /\ LregInit /\ DtInit /\ PartIdle /\ PairInit /\ ThrInit /\ ExpInit
            /\ VerInit

\* everything but the components modelled last
EarlyIdle == CoreIdle /\ AudThrInit /\ SwInitWith(1) /\ HwInit /\ FnInit /\ GreedyInit

SpecAuditThreadsInit ==
    clock = 0 /\ CoreIdle /\ AudThrInit /\ SwInitWith(1) /\ HwInit /\ FnInit /\ GreedyInit
    /\ LateIdle
SpecAuditThreadsNext ==
    \/ \E t \in Threads : AudThrBegin(t) \/ AudThrHash(t) \/ AudThrWrite(t)
    \/ AuditTick
SpecAuditThreads == SpecAuditThreadsInit /\ [][SpecAuditThreadsNext]_vars

SpecWindowInit ==
    /\ clock = 0 /\ CoreIdle /\ AudThrInit /\ HwInit /\ FnInit /\ GreedyInit /\ LateIdle
    /\ \E capacity \in {1, 2} : SwInitWith(capacity)
SpecWindowNext == SwAppendStep \/ SwClear \/ SwReady \/ SwGetMatrix
SpecWindow == SpecWindowInit /\ [][SpecWindowNext]_vars

SpecHwInit ==
    clock = 1 /\ CoreIdle /\ AudThrInit /\ SwInitWith(1) /\ HwInit /\ FnInit /\ GreedyInit
    /\ LateIdle
SpecHwNext == HwIngest \/ HwReadState \/ HwTick
SpecHw == SpecHwInit /\ [][SpecHwNext]_vars

SpecFnInit ==
    clock = 0 /\ CoreIdle /\ AudThrInit /\ SwInitWith(1) /\ HwInit /\ FnInit /\ GreedyInit
    /\ LateIdle
SpecFnNext == FnDecide \/ FnCompute \/ FnSc1Evaluate \/ FnBuildAndSign
SpecFn == SpecFnInit /\ [][SpecFnNext]_vars

SpecGreedyInit ==
    /\ clock = 0 /\ CoreIdle /\ AudThrInit /\ SwInitWith(1) /\ HwInit /\ FnInit /\ LateIdle
    /\ \E C \in GrCInputs(MaxN + 1), L_loop_base \in GrLoops, lam \in {0, 1},
          theta \in {0, 1}, kappa \in {None, Some(1), Some(2)} :
         GreedyInitWith(MaxN + 1, C, L_loop_base, lam, theta, kappa)
SpecGreedyNext == GreedyStep
SpecGreedy == SpecGreedyInit /\ [][SpecGreedyNext]_vars
\* the same calls on a matrix of MaxN columns; the loop keeps running until it returns
SpecGreedyLiveInit ==
    /\ clock = 0 /\ CoreIdle /\ AudThrInit /\ SwInitWith(1) /\ HwInit /\ FnInit /\ LateIdle
    /\ \E C \in GrCInputs(MaxN), L_loop_base \in GrLoops, lam \in {0, 1},
          theta \in {0, 1}, kappa \in {None, Some(1), Some(2)} :
         GreedyInitWith(MaxN, C, L_loop_base, lam, theta, kappa)
SpecGreedyLive == SpecGreedyLiveInit /\ [][SpecGreedyNext]_vars /\ WF_vars(GreedyStep)

SpecBootstrapInit ==
    /\ clock = 0 /\ EarlyIdle /\ PlantInit /\ OmInit /\ ChkInit
    /\ \E n \in 1 .. MaxBbSize, block \in 1 .. (MaxBbSize + 1), draws \in 0 .. MaxBbSize :
         /\ n + draws <= MaxBbSize
         /\ block <= n + 1
         /\ BootstrapInitWith(n, block, draws)
SpecBootstrapNext == BootstrapStep
SpecBootstrap == SpecBootstrapInit /\ [][SpecBootstrapNext]_vars
\* the loops keep running until the function returns
SpecBootstrapLive == SpecBootstrap /\ WF_vars(BootstrapStep)

SpecPlantInit == clock = 0 /\ EarlyIdle /\ BbInit /\ PlantInit /\ OmInit /\ ChkInit
SpecPlantNext == PlApplyOmega \/ PlWriteActuators
SpecPlant == SpecPlantInit /\ [][SpecPlantNext]_vars

SpecAuditFileInit == clock = 0 /\ EarlyIdle /\ BbInit /\ PlantInit /\ OmInit /\ ChkInit
SpecAuditFileNext == AuditFileAppend \/ AuditReopen \/ AuditTick \/ ChainCheck
SpecAuditFile == SpecAuditFileInit /\ [][SpecAuditFileNext]_vars

SpecPartAnyInit == SpecPartInit
SpecPartAnyNext == PartMaybeRegrowAny \/ PartFreeze \/ PartUpdateCurrentM
SpecPartAny == SpecPartAnyInit /\ [][SpecPartAnyNext]_vars

SpecOmegaInit ==
    /\ clock = 0 /\ AuditInit /\ LregInit /\ DtInit /\ ExtIdle
    /\ \E seed_C \in IndexLists(MaxN), k \in 1 .. MaxK : PartInitWith(MaxN, seed_C, k)
SpecOmegaNext == OmegaStart \/ OmFreeze \/ OmMaybeRegrow \/ OmegaStop
SpecOmega == SpecOmegaInit /\ [][SpecOmegaNext]_vars

\* all components side by side; the specifications above are its parts
Init == SpecPartInit
Next == SpecAuditNext \/ SpecLregNext \/ SpecLregPairNext \/ SpecLregThreadsNext
        \/ SpecExportNext \/ SpecAttestNext \/ SpecRunNext \/ SpecDtNext
        \/ SpecPartNext \/ SpecAuditThreadsNext \/ SpecWindowNext \/ SpecHwNext
        \/ SpecFnNext \/ SpecGreedyNext \/ SpecBootstrapNext \/ SpecPlantNext
        \/ SpecAuditFileNext \/ SpecPartAnyNext \/ SpecOmegaNext
Spec == Init /\ [][Next]_vars

-----------------------------------------------------------------------------
(* Properties of the audit log (SpecAudit) *)

\* C1: in the audit file the first record has counter 1 and every later record's
\* counter is one more than the counter of the record written before it, also
\* after append calls that raised on a banned key.
C1_CounterContiguous ==
    \A i \in DOMAIN audit_file :
        audit_file[i].counter = IF i = 1 THEN 1 ELSE audit_file[i - 1].counter + 1

\* C2: every record's prev_hash is the hash of the record written immediately
\* before it (GENESIS for the first), and every record's hash is the SHA-256 of
\* the canonical sorted-key JSON of its own {counter, ts, event, details, prev_hash}.
C2_HashChain ==
    \A i \in DOMAIN audit_file :
        LET r == audit_file[i]
        IN  /\ r.prev_hash = IF i = 1 THEN Genesis ELSE audit_file[i - 1].hash
            /\ r.hash = Sha256(CanonicalJson(r.counter, r.ts, r.event, r.details,
                                             r.prev_hash))

\* a chain of two records, the later one with details, written after a raise
C2_Witness ==
    /\ Len(audit_file) >= 2
    /\ Last(audit_file).details # <<>>
    /\ audit_counter > Len(audit_file)

\* C3: an append whose details hold one of L_loop, L_ex, ci_loop, ci_ex raises
\* and writes no record, so no record of the file carries such a key.
C3_BannedRaises ==
    /\ [](\A i \in DOMAIN audit_file : ~HasBanned(audit_file[i].details))
    /\ [][(audit_counter' # audit_counter /\ HasBanned(audit_call'.details))
            => (audit_call'.raised /\ audit_file' = audit_file
                /\ audit_prev_hash' = audit_prev_hash)]_vars

\* an append with a banned key next to a permitted one has just raised, on a
\* file that already holds a record
C3_Witness ==
    /\ audit_call.raised
    /\ Keys(audit_call.details) = {"M_db", "ci_ex"}
    /\ audit_file # <<>>

-----------------------------------------------------------------------------
(* Properties of LREG and the indicator payload (SpecLreg) *)

\* C4: once invalidate has been called the register stays invalidated; every
\* later derive() returns invalidated = true and nc1 = false whatever entries
\* are written afterwards, and every payload built from such a derive() carries
\* nc1 = false and invalidated = true.
C4_InvalidationSticks ==
    /\ [][lreg_invalidated => lreg_invalidated']_vars
    /\ []((lreg_inval_at # None) => lreg_invalidated)
    /\ []((lreg_inval_at # None /\ lreg_ret.op \in {"derive", "build_and_sign"})
            => (lreg_ret.val.invalidated /\ ~lreg_ret.val.nc1))

\* a payload built after invalidation, the latest entry written after the
\* invalidation and passing NC1
C4_Witness ==
    /\ lreg_inval_at # None
    /\ Len(lreg_entries) > lreg_inval_at[1]
    /\ Last(lreg_entries).nc1_pass
    /\ lreg_ret.op = "build_and_sign"

\* the field names of the value an LREG operation returned
ReturnedFields(ret) ==
    IF ret.op = "latest" THEN (IF ret.val = None THEN {} ELSE DOMAIN ret.val[1])
    ELSE IF ret.op \in {"derive", "build_and_sign"} THEN DOMAIN ret.val
    ELSE {}

\* C12: no public LREG operation (write, invalidate, latest, derive, and the
\* invalidated and reason properties) returns a value that carries L_loop, L_ex,
\* ci_loop or ci_ex.
C12_NoRawReturned == ReturnedFields(lreg_ret) \cap Banned = {}

\* C13: two registers driven by the same write and invalidate calls, whose
\* entries differ only in L_loop, L_ex, ci_loop and ci_ex, return identical
\* derive() results at every step.
C13_DeriveIgnoresRaw ==
    /\ DeriveOf(lreg_entries, lreg_invalidated)
         = DeriveOf(lreg2_entries, lreg2_invalidated)
    /\ lreg_ret.op = "derive_pair" => lreg_ret.val[1] = lreg_ret.val[2]

\* derive() has been called on both registers after two writes, the latest
\* entries differing in all four raw fields, once the registers were invalidated
C13_Witness ==
    /\ lreg_ret.op = "derive_pair"
    /\ Len(lreg_entries) >= 2
    /\ lreg_invalidated
    /\ LET a == Last(lreg_entries)
           b == Last(lreg2_entries)
       IN  /\ a.L_loop # b.L_loop /\ a.L_ex # b.L_ex
           /\ a.ci_loop # b.ci_loop /\ a.ci_ex # b.ci_ex
           /\ a.nc1_pass

\* C14: write returns 0, 1, 2, ... in order of return and no index twice, also
\* with several threads writing; the entry stored under a returned index is the
\* one that call wrote; latest() is the entry of the most recently returned
\* write; derive().counter is at least the number of writes returned when the
\* call began and at most the number of entries stored when it returns (so k
\* after k writes with none in progress), and a derive() with counter 0 has
\* nc1 = false and M_db = 0.
C14_IndicesAndCounter ==
    /\ \A i \in DOMAIN lreg_returned :
         /\ lreg_returned[i].idx = i - 1
         /\ i \in DOMAIN lreg_entries
         /\ lreg_entries[i] = lreg_returned[i].entry
    /\ lreg_ret.op = "latest" =>
         lreg_ret.val = IF lreg_ret.k = 0 THEN None
                        ELSE Some(lreg_returned[lreg_ret.k].entry)
    /\ lreg_ret.op = "derive" =>
         /\ lreg_ret.start_k <= lreg_ret.val.counter
         /\ lreg_ret.val.counter <= Len(lreg_entries)
         /\ lreg_ret.val.counter = 0 => (~lreg_ret.val.nc1 /\ lreg_ret.val.M_db = 0)

\* both threads have had a write return, and a derive() that began after two
\* writes has returned counter 3
C14_Witness ==
    /\ Len(lreg_returned) = 3
    /\ {lreg_returned[i].thread : i \in DOMAIN lreg_returned} = Threads
    /\ lreg_ret.op = "derive"
    /\ lreg_ret.start_k = 2
    /\ lreg_ret.val.counter = 3

-----------------------------------------------------------------------------
(* Properties of DeltaTGuard (SpecDt) *)

\* the accepted changes whose time lies in [t, t + Hour)
AcceptedWithin(t) ==
    {i \in DOMAIN dt_hist : dt_hist[i].ok /\ t <= dt_hist[i].now
                            /\ dt_hist[i].now < t + Hour}

\* C5: every interval of 3600 seconds, wherever it starts, contains at most
\* max_changes_per_hour accepted changes.
C5_RollingHourLimit ==
    \A i \in DOMAIN dt_hist :
        Cardinality(AcceptedWithin(dt_hist[i].now)) <= max_changes_per_hour

\* the calls so far are spaced at least min_seconds_between_changes apart and
\* all fall within the first hour of the guard (constructed at time 0)
SpacedInFirstHour ==
    \A i \in DOMAIN dt_hist :
        /\ dt_hist[i].now < Hour
        /\ i > 1 => dt_hist[i].now - dt_hist[i - 1].now >= MinGap

\* C6: from a new guard, with calls spaced at least min_seconds_between_changes
\* apart and all within the guard's first hour, the first max_changes_per_hour
\* calls return True and the next returns False and sets the invalidated flag.
C6_LimitThenRefuse ==
    SpacedInFirstHour =>
        /\ \A i \in DOMAIN dt_hist :
              /\ i <= max_changes_per_hour => dt_hist[i].ok
              /\ i = max_changes_per_hour + 1 => ~dt_hist[i].ok
        /\ Len(dt_hist) > max_changes_per_hour => dt_invalidated

C6_Witness ==
    /\ SpacedInFirstHour
    /\ Len(dt_hist) = max_changes_per_hour + 1
    /\ dt_invalidated

\* what every change_dt call does, but for the change count on refusal
ChangeDtOutcome ==
    LET h == Last(dt_hist')
        rec == Last(audit_file')
    IN  /\ Len(audit_file') = Len(audit_file) + 1
        /\ IF h.ok
             THEN /\ sched_set_dt_calls' = sched_set_dt_calls + 1
                  /\ sched_dt' = h.new_dt
                  /\ rec.event = "dt_changed"
                  /\ GetVal(rec.details, "old_dt") = sched_dt
                  /\ GetVal(rec.details, "new_dt") = h.new_dt
             ELSE /\ rec.event = "run_invalidated"
                  /\ GetVal(rec.details, "reason") = "dt_change_rate_limit"
                  /\ sched_set_dt_calls' = sched_set_dt_calls
                  /\ sched_dt' = sched_dt
                  /\ dt_last_change_ts' = dt_last_change_ts
                  /\ dt_invalidated'

-----------------------------------------------------------------------------
(* Properties of PartitionManager (SpecPart, SpecPartHyst) *)

\* ascending without duplicates
StrictlyAscending(s) == \A i \in 1 .. (Len(s) - 1) : s[i] < s[i + 1]

\* C8: with seed_C and every suggested_C drawn from {0..N-1}, at every
\* observable point C and Ex are disjoint, C \cup Ex = {0..N-1}, and both lists
\* are sorted ascending without duplicates.
C8_PartitionWellFormed ==
    /\ Range(part_C) \cap Range(part_Ex) = {}
    /\ Range(part_C) \cup Range(part_Ex) = 0 .. (pm_N - 1)
    /\ StrictlyAscending(part_C)
    /\ StrictlyAscending(part_Ex)

\* two flips have been committed and both sides hold an index
C8_Witness ==
    /\ part_flips = 2
    /\ part_C # <<>>
    /\ part_Ex # <<>>

\* C9: while the partition is frozen a maybe_regrow call is a no-op: flips, C,
\* Ex, the pending suggestion, the streak and last_flip_info are unchanged.
C9_FrozenNoOp ==
    [][(pm_call'.op = "maybe_regrow" /\ part_frozen)
         => UNCHANGED <<part_flips, part_C, part_Ex, pm_pending_C,
                        pm_pending_streak, pm_last_flip_info>>]_vars

\* a maybe_regrow call made while frozen, with a suggestion pending
C9_Witness ==
    /\ pm_call.op = "maybe_regrow"
    /\ pm_call.frozen
    /\ pm_pending_C # None
    /\ pm_pending_streak >= 1

\* C10: with consecutive_required = k >= 1 and delta_M_min_db fixed, an unfrozen
\* maybe_regrow call commits a flip iff it and the k-1 unfrozen calls before it
\* all carried the same suggestion (as a set), different from the current C,
\* each with sufficient gain; otherwise the count restarts: it is the length of
\* the run the call belongs to, and 0 with nothing pending when the suggestion
\* equals the current C.
C10_FlipIffRun ==
    (pm_call.op = "maybe_regrow" /\ ~pm_call.frozen /\ pm_k >= 1) =>
        /\ pm_call.flipped <=> (pm_run.len >= pm_k /\ pm_run.sug # pm_call.C_before)
        /\ (~pm_call.flipped /\ pm_run.sug # pm_call.C_before)
             => (pm_pending_streak = pm_run.len /\ pm_pending_C = Some(pm_run.sug))
        /\ (pm_run.sug = pm_call.C_before)
             => (pm_pending_streak = 0 /\ pm_pending_C = None)

\* a flip committed at the second of two identical sufficient suggestions, after
\* an earlier flip
C10_Witness ==
    /\ pm_call.op = "maybe_regrow"
    /\ pm_call.flipped
    /\ pm_k = 2
    /\ part_flips = 2

\* C11: a maybe_regrow call that commits sets C to the suggestion sorted
\* ascending, sets Ex to the ascending complement of C in {0..N-1}, increases
\* flips by exactly 1, clears the pending suggestion and the streak, and records
\* {streak, delta_M_db, new_C}; a call that does not commit leaves C, Ex and
\* flips unchanged, as does every other operation, so flips never decreases and
\* counts the commits.
C11_CommitEffect ==
    [][/\ (pm_call'.op = "maybe_regrow" /\ pm_call'.flipped) =>
            /\ StrictlyAscending(part_C')
            /\ Range(part_C') = Range(pm_call'.args[1][1])
            /\ StrictlyAscending(part_Ex')
            /\ Range(part_Ex') = (0 .. (pm_N - 1)) \ Range(part_C')
            /\ part_flips' = part_flips + 1
            /\ pm_pending_C' = None
            /\ pm_pending_streak' = 0
            /\ pm_last_flip_info' # None
            /\ pm_last_flip_info'[1].new_C = part_C'
            /\ pm_last_flip_info'[1].delta_M_db = pm_call'.args[1][2]
            /\ pm_last_flip_info'[1].streak \in 0 .. (pm_pending_streak + 1)
       /\ ~(pm_call'.op = "maybe_regrow" /\ pm_call'.flipped) =>
            UNCHANGED <<part_C, part_Ex, part_flips>>
       /\ part_flips' >= part_flips]_vars

\* a second flip has just been committed from a suggestion given out of order,
\* at the second of two sufficient calls
C11_Witness ==
    /\ pm_call.op = "maybe_regrow"
    /\ pm_call.flipped
    /\ pm_call.args[1][1] = <<1, 0>>
    /\ part_flips = 2
    /\ pm_last_flip_info[1].streak = 2

-----------------------------------------------------------------------------
(* Properties of the exporter (SpecExport) *)

\* whether a Python value holds one of the banned keys at any depth
RECURSIVE ContainsBannedKey(_)
ContainsBannedKey(o) ==
    IF o.t = "dict"
      THEN \E i \in DOMAIN o.v : o.v[i][1] \in Banned \/ ContainsBannedKey(o.v[i][2])
    ELSE IF o.t \in {"list", "tuple"}
      THEN \E i \in DOMAIN o.v : ContainsBannedKey(o.v[i])
    ELSE FALSE

\* C15 as stated: whenever the derived payload holds one of L_loop, L_ex,
\* ci_loop, ci_ex as a key at any depth inside dicts, lists or tuples,
\* maybe_export raises, before any .jsonl or .cbor file is created or written.
C15_BannedAlwaysRaises ==
    [][(exp_ret'.n # exp_ret.n /\ ContainsBannedKey(exp_ret'.derived))
         => (exp_ret'.raised /\ exp_dir' = exp_dir)]_vars

\* C15 amended: a maybe_export call admitted by the rate limit raises, writing
\* no file, whenever the derived payload holds a banned key at any depth; a call
\* not admitted returns (False, "") without raising, and writes no file either.
C15_BannedRaisesWhenAdmitted ==
    [][(exp_ret'.n # exp_ret.n /\ ContainsBannedKey(exp_ret'.derived))
         => /\ exp_dir' = exp_dir
            /\ exp_log' = exp_log
            /\ IF RateLimited(exp_now)
                 THEN ~exp_ret'.raised /\ ~exp_ret'.ok /\ exp_ret'.base = None
                 ELSE exp_ret'.raised]_vars

\* an admitted call has raised on a key nested in a dict inside a tuple, with a
\* bundle already on disk
C15_Witness ==
    /\ exp_ret.op = "maybe_export"
    /\ exp_ret.raised
    /\ \E i \in DOMAIN exp_ret.derived.v :
         /\ exp_ret.derived.v[i][1] = "dbg"
         /\ exp_ret.derived.v[i][2].t = "tuple"
    /\ exp_dir # <<>>

\* C16: for every configured rate_hz > 0, any two bundles written by one
\* exporter are at least 1/rate_hz seconds apart, and a maybe_export call that
\* arrives sooner returns (False, "") and writes no file.
C16_BundlesSpaced ==
    \A i, j \in DOMAIN exp_log :
        i < j => (exp_log[j].t - exp_log[i].t) * exp_rate_hz[1]
                    >= exp_rate_hz[2] * ExpSecond

\* C17: for every bundle written by maybe_export, the verifier's reconstruction
\* of the payload (nc1, sc1, mq, counter, profile_id, audit_prev_hash, then the
\* other keys sorted) encodes to the bytes of the .cbor sidecar, and the
\* bundle's signature verifies against the sidecar.
C17_ReconstructionMatches ==
    \A i \in DOMAIN exp_dir : \A j \in DOMAIN exp_dir[i].jsonl :
        LET chk == LineChecks(exp_dir[i].jsonl[j], exp_dir[i].cbor, <<>>)
        IN  chk.cbor_match /\ chk.sig

-----------------------------------------------------------------------------
(* Properties of an audited, exported and verified run (SpecAttest) *)

\* C18: for every exported bundle, however many audit records were appended
\* before the export (none included), the payload's audit_prev_hash is the hash
\* of a record present in the audit file, so the verifier's membership check
\* succeeds.
C18_PrevHashInAudit ==
    \A i \in DOMAIN exp_dir : \A j \in DOMAIN exp_dir[i].jsonl :
        LineChecks(exp_dir[i].jsonl[j], exp_dir[i].cbor,
                   AuditChainStatus(audit_file).hashes).prev

\* C19: when the hash field of an audit record other than the last is altered,
\* audit_chain_status returns chain_ok = false with a non-empty diagnostic, the
\* certificate reports audit_chain BROKEN, and the verifier exits non-zero.
C19_AlteredHashDetected ==
    (ver_ret.op = "verify" /\ ver_ret.altered # None
       /\ ver_ret.altered[1][1] < ver_ret.lines)
      => /\ ~ver_ret.out.chain_ok
         /\ ver_ret.out.diag # None
         /\ ver_ret.out.audit_chain = "BROKEN"
         /\ ver_ret.out.exit # 0

\* the verifier has run on a file whose first record of three had its hash
\* altered, the file being intact otherwise and every bundle passing its checks
C19_Witness ==
    /\ ver_ret.op = "verify"
    /\ ver_ret.altered # None
    /\ ver_ret.altered[1][1] = 1
    /\ ver_ret.lines = 3
    /\ AuditChainStatus(audit_file).chain_ok
    /\ ver_ret.out.stats.total > 0
    /\ ver_ret.out.stats.ok_sig = ver_ret.out.stats.total
    /\ ver_ret.out.stats.fails_cbor_match = 0
    /\ ver_ret.out.stats.ok_prev_in_audit = ver_ret.out.stats.total

-----------------------------------------------------------------------------
(* Properties of a whole run (SpecRun) *)

\* change_dt has refused a change
DtRefused == \E i \in DOMAIN dt_hist : ~dt_hist[i].ok

-----------------------------------------------------------------------------
(* Properties of the audit log under concurrent appends (SpecAuditThreads) *)

\* C21: with several threads appending to one AuditLog, every line of the file is
\* one whole record (its hash is that of its own fields), counters increase down
\* the file, each record's prev_hash is the hash of the line before it (GENESIS
\* for the first), and ts never decreases down the file.
C21_ConcurrentAppendsOrdered ==
    \A i \in DOMAIN audit_file :
        LET rec == audit_file[i]
        IN  /\ rec = MakeRecord(rec.counter, rec.ts, rec.event, rec.details, rec.prev_hash)
            /\ rec.prev_hash = IF i = 1 THEN Genesis ELSE audit_file[i - 1].hash
            /\ i > 1 => /\ rec.counter > audit_file[i - 1].counter
                        /\ rec.ts >= audit_file[i - 1].ts

\* both threads have written, one of them after waiting out a tick of the clock
C21_Witness ==
    /\ Len(audit_file) >= 2
    /\ \E i, j \in DOMAIN audit_file :
         /\ i < j
         /\ audit_file[i].details # audit_file[j].details
         /\ audit_file[i].ts < audit_file[j].ts

-----------------------------------------------------------------------------
(* Properties of SlidingWindow (SpecWindow) *)

\* the row a sample contributes: one value per channel, 0.0 for a missing key
SwRow(sample) ==
    [c \in DOMAIN SwOrder |->
        IF SwOrder[c] \in Keys(sample) THEN GetVal(sample, SwOrder[c]) ELSE Fin(0)]

\* get_matrix returned a matrix
SwReturnedMatrix == sw_reader.pc = "idle" /\ sw_reader.op = "get_matrix" /\ sw_reader.raised = ""

\* C22: every row of a matrix returned by get_matrix holds the values of one single
\* sample, also when append runs in the other thread during the call.
C22_RowsAreSamples ==
    SwReturnedMatrix =>
        \A r \in DOMAIN sw_reader.cols[1] :
            [c \in DOMAIN SwOrder |-> sw_reader.cols[c][r]] \in {SwRow(s) : s \in SwSamples}

\* C23: no NaN appears in a matrix returned by get_matrix.
C23_NoNaNInMatrix ==
    SwReturnedMatrix =>
        \A c \in DOMAIN SwOrder : \A r \in DOMAIN sw_reader.cols[c] :
            sw_reader.cols[c][r] # NaN

\* C24: between calls all channel buffers hold min(capacity, appends since the last
\* clear) samples; ready() is true exactly when that number is capacity; get_matrix
\* raises RuntimeError when not ready and otherwise returns the last capacity
\* samples oldest first, one column per channel in channel order, a missing key
\* stored as 0.0.
C24_WindowContents ==
    /\ sw_writer.pc = "idle" =>
         \A k \in Range(SwOrder) : Len(sw_buffers[k]) = Min2(sw_capacity, Len(sw_hist))
    /\ (sw_reader.pc = "idle" /\ sw_reader.op \in {"ready", "get_matrix"} /\ sw_reader.quiet) =>
         LET n == Len(sw_reader.hist)
         IN  IF sw_reader.op = "ready" THEN sw_reader.val = (n >= sw_capacity)
             ELSE IF n < sw_capacity THEN sw_reader.raised = "RuntimeError"
             ELSE /\ sw_reader.raised = ""
                  /\ Len(sw_reader.cols) = Len(SwOrder)
                  /\ \A c \in DOMAIN SwOrder :
                       /\ Len(sw_reader.cols[c]) = sw_capacity
                       /\ \A r \in 1 .. sw_capacity :
                            sw_reader.cols[c][r] = SwRow(sw_reader.hist[n - sw_capacity + r])[c]

\* a full window that has slid: more appends than capacity, one without "E", read whole
C24_Witness ==
    /\ SwReturnedMatrix /\ sw_reader.quiet
    /\ sw_capacity = 2
    /\ Len(sw_reader.hist) = 3
    /\ \E r \in 1 .. 2 : sw_reader.cols[1][r] = Fin(0)

-----------------------------------------------------------------------------
(* Properties of HardwarePlantAdapter (SpecHw) *)

\* the accepted messages among those received: a JSON object with a number for at
\* least one state key
HwAccepted(rx) ==
    SelectSeq(rx, LAMBDA m : m.msg.dict /\ \E k \in HwStateKeys \cap Keys(m.msg.items) :
                                 GetVal(m.msg.items, k).k \in {"fin", "nan"})

\* the value for key k in the most recent accepted message carrying a number for k
HwLatestValue(acc, k) ==
    LET carrying == {i \in DOMAIN acc : k \in Keys(acc[i].msg.items)
                                        /\ GetVal(acc[i].msg.items, k).k \in {"fin", "nan"}}
    IN  IF carrying = {} THEN NaN
        ELSE GetVal(acc[CHOOSE i \in carrying : \A j \in carrying : j <= i].msg.items, k)

\* C25: read_state returns NaN for every key before any telemetry was accepted and
\* whenever the most recently accepted message is older than the timeout; otherwise
\* each key has the value of the most recent accepted message that carried it, NaN
\* if none did.
C25_ReadStateFreshOrNaN ==
    hw_ret.op = "read_state" =>
        LET acc == HwAccepted(hw_rx)
        IN  \A k \in HwStateKeys :
              hw_ret.val[k] =
                IF acc = <<>> \/ clock - Last(acc).ts > HwTimeout THEN NaN
                ELSE HwLatestValue(acc, k)

\* a read of stale telemetry: values had been received, the last one too long ago
C25_Witness ==
    /\ hw_ret.op = "read_state"
    /\ hw_state["E"] # NaN
    /\ clock - hw_last_rx_ts > HwTimeout
    /\ hw_ret.val["E"] = NaN

-----------------------------------------------------------------------------
(* Properties of the arbiter, the policy, SC1 and the quantizer (SpecFn) *)

\* the decision the arbiter is to take
ExpectedDecision(state, M, cmd) ==
    LET E == IF "E" \in Keys(state) THEN GetVal(state, "E") ELSE Fin(0)
        T == IF "T" \in Keys(state) THEN GetVal(state, "T") ELSE Fin(0)
        floor == E.k = "fin" /\ E.v <= soc_floor
        heat == T.k = "fin" /\ T.v >= temp_ceiling
        margin == M.k = "fin" /\ M.v < Mmin_db
    IN  CASE cmd \in {None, Some("")} -> <<TRUE, "no_cmd">>
          [] OTHER -> IF floor THEN <<FALSE, "soc_floor">>
                      ELSE IF heat THEN <<FALSE, "overheat">>
                      ELSE IF margin THEN <<FALSE, "M_margin">>
                      ELSE <<TRUE, "ok">>

DecideAsExpected ==
    fn_ret.op = "decide" =>
        <<fn_ret.out.accept, fn_ret.out.reason>>
            = ExpectedDecision(fn_ret.state, fn_ret.M, fn_ret.cmd)

\* C26 as stated: decide follows the priority order no_cmd, soc_floor, overheat,
\* M_margin, ok, a missing E or T counting as 0, and compute sets accept_cmd to
\* exactly this decision for every state.
C26_DecisionEverywhere ==
    /\ DecideAsExpected
    /\ fn_ret.op = "compute" =>
         /\ fn_ret.out.raised = ""
         /\ fn_ret.out.accept_cmd = ExpectedDecision(fn_ret.state, fn_ret.M, fn_ret.cmd)[1]

\* C26 amended: decide is as stated; compute sets accept_cmd to that decision, and
\* last_decision to it, when the state carries E, T and R, and raises KeyError
\* without consulting the arbiter when one of them is missing.
C26_DecisionWhenStateComplete ==
    /\ DecideAsExpected
    /\ fn_ret.op = "compute" =>
         IF {"E", "T", "R"} \subseteq Keys(fn_ret.state)
           THEN /\ fn_ret.out.raised = ""
                /\ fn_ret.out.accept_cmd
                     = ExpectedDecision(fn_ret.state, fn_ret.M, fn_ret.cmd)[1]
                /\ pol_last_decision # None
                /\ <<pol_last_decision[1].accept, pol_last_decision[1].reason>>
                     = ExpectedDecision(fn_ret.state, fn_ret.M, fn_ret.cmd)
           ELSE /\ fn_ret.out.raised = "KeyError"
                /\ pol_last_decision = fn_ret.last_before

\* a risky command refused by compute for overheating only
C26_Witness ==
    /\ fn_ret.op = "compute"
    /\ fn_ret.cmd = Some("hard_shutdown")
    /\ fn_ret.out.raised = ""
    /\ ~fn_ret.out.accept_cmd
    /\ fn_ret.out.dec.reason = "overheat"
    /\ fn_ret.M = Fin(23)

\* C27: sc1_evaluate passes if and only if the baseline is > 0, the fractional drop
\* max(0, (baseline - trough) / baseline) is <= epsilon, tau_rec_measured <= tau_max
\* and M_post >= Mmin; with a baseline <= 0 it returns pass = false, delta = 1 and
\* tau_rec = infinity.  (Stated for a trough that is a number.)
C27_Sc1PassIff ==
    (fn_ret.op = "sc1_evaluate" /\ fn_ret.trough.k = "fin") =>
        LET b == fn_ret.baseline
            t == fn_ret.trough
            positive == b.k = "fin" /\ b.v > 0
            drop == IF b.v - t.v > 0 THEN b.v - t.v ELSE 0
        IN  /\ fn_ret.out.pass <=>
                 /\ positive
                 /\ drop * fn_ret.epsilon[2] <= fn_ret.epsilon[1] * b.v
                 /\ fn_ret.tau.k = "fin" /\ fn_ret.tau.v <= fn_ret.tau_max
                 /\ fn_ret.M_post.v >= fn_ret.Mmin
            /\ (b.k = "fin" /\ b.v <= 0) =>
                 /\ fn_ret.out.delta = [num |-> 1, den |-> 1]
                 /\ fn_ret.out.tau_rec = Inf

\* C28: for every finite M_db the payload's mq is clip(round(M_db / 0.25), 0, 63):
\* an integer in 0..63, 0 for every negative M_db, 63 for every M_db >= 15.75.
\* (Monotonicity follows from the first conjunct.)
C28_MqClipped ==
    fn_ret.op = "build_and_sign" =>
        /\ fn_ret.raised = ""
        /\ LET mq == fn_ret.payload[1].mq
               M == fn_ret.M_db
               rounded == IF M.k = "fin" THEN PyRound(M.v, MqStepEighths) ELSE M.v * (MqMax + 1)
           IN  /\ mq = IF rounded < 0 THEN 0 ELSE IF rounded > MqMax THEN MqMax ELSE rounded
               /\ mq \in 0 .. MqMax
               /\ (M.k = "big" /\ M.v < 0) \/ (M.k = "fin" /\ M.v < 0) => mq = 0
               /\ (M.k = "big" /\ M.v > 0) \/ (M.k = "fin" /\ M.v >= 126) => mq = MqMax

-----------------------------------------------------------------------------
(* Properties of greedy_suggest_C (SpecGreedy, SpecGreedyLive) *)

\* C29: for any estimator and any current C within {0..N-1}, greedy_suggest_C
\* returns, having added at most |Ex| indices; the returned list is sorted, holds
\* every index of C, lies within {0..N-1}, and with a cap kappa has at most
\* max(|C|, kappa) elements.
C29_GreedyTerminatesWellFormed ==
    /\ [](/\ Len(gr.added) <= gr.N - Cardinality(Range(gr.C))
          /\ gr.done =>
               /\ StrictlyAscending(gr.C_cur)
               /\ Range(gr.C) \subseteq Range(gr.C_cur)
               /\ Range(gr.C_cur) \subseteq 0 .. (gr.N - 1)
               /\ gr.kappa # None =>
                    Len(gr.C_cur) <= Max2(Cardinality(Range(gr.C)), gr.kappa[1]))
    /\ <>gr.done

\* a call that grew C by two indices up to the cap and returned
C29_Witness ==
    /\ gr.done
    /\ gr.kappa = Some(2)
    /\ gr.C = <<>>
    /\ Len(gr.added) = 2
    /\ gr.last.stop = "kappa"

\* C30: the index added at a step is the smallest of the candidates in Ex whose
\* score (L_loop with the candidate, minus L_loop of the current set, minus lam) is
\* maximal; growth stops at the first step whose best score is below theta, so
\* every added index scored at least theta.
C30_GreedyPicksBest ==
    gr.last.stop \in {"", "theta"} =>
        LET st == gr.last
            cands == Range(st.Ex_cur)
            score(i) == (st.L[i] - st.L_loop_base) - gr.lam
            top == {i \in cands : \A j \in cands : score(j) <= score(i)}
        IN  IF st.stop = ""
              THEN /\ top # {}
                   /\ Last(gr.added) \in top
                   /\ \A j \in top : Last(gr.added) <= j
                   /\ score(Last(gr.added)) >= gr.theta
                   /\ Last(gr.step_gains) = score(Last(gr.added))
                   /\ \A g \in Range(gr.step_gains) : g >= gr.theta
              ELSE \A i \in cands : score(i) < gr.theta

\* a step that had to break a tie between two best candidates, above the threshold
C30_Witness ==
    /\ gr.last.stop = ""
    /\ gr.theta = 1
    /\ \E i, j \in Range(gr.last.Ex_cur) :
         /\ i < j
         /\ gr.last.L[i] = gr.last.L[j]
         /\ Last(gr.added) = i
         /\ \A m \in Range(gr.last.Ex_cur) : gr.last.L[m] <= gr.last.L[i]



-----------------------------------------------------------------------------
(* Properties of block_bootstrap_indices (SpecBootstrapLive) *)

\* an array made of blocks of consecutive indices modulo n, the block that begins
\* at position p having min(block, n - p) elements
BlocksOf(a, n, block) ==
    \A p \in 1 .. Len(a) :
        (p - 1) % block # 0 => a[p] = (a[p - 1] + 1) % n

\* C31: for n >= 1, block >= 1 and draws >= 0 the call returns; it returns exactly
\* `draws` arrays, and every array built has length n, holds only indices in
\* 0 .. n-1 and is made of runs of consecutive indices modulo n of length
\* min(block, remaining).
C31_BootstrapTerminatesWellFormed ==
    /\ [](/\ Len(bb.idxs) <= bb.draws
          /\ bb.pc = "returned" => Len(bb.idxs) = bb.draws
          /\ \A d \in DOMAIN bb.idxs :
               /\ Len(bb.idxs[d]) = bb.n
               /\ \A p \in DOMAIN bb.idxs[d] : bb.idxs[d][p] \in 0 .. (bb.n - 1)
               /\ BlocksOf(bb.idxs[d], bb.n, bb.block))
    /\ <>(bb.pc = "returned")

\* two arrays of three indices have been returned for block 2: the first wraps
\* around inside its first block, the second ends with a shortened block
C31_Witness ==
    /\ bb.pc = "returned"
    /\ bb.n = 3 /\ bb.block = 2 /\ bb.draws = 2
    /\ bb.idxs = << <<2, 0, 1>>, <<0, 1, 0>> >>


-----------------------------------------------------------------------------
(* Properties of the plant adapter (SpecPlant) *)

\* the apply_omega call that a step made, if it made one
OmegaCallMade == Len(pl_hist') > Len(pl_hist) /\ Last(pl_hist').op = "apply_omega"

\* what apply_omega does for power_sag, ingress_flood and command_conflict
DocumentedSummaries(e) ==
    /\ e.name = "power_sag" =>
         /\ ~e.raised
         /\ Keys(e.ret) = {"H_old", "H_new"}
         /\ GetVal(e.ret, "H_old") = plant.H
         /\ GetVal(e.ret, "H_new") = plant'.H
         /\ 0 <= GetVal(e.ret, "H_new")
         /\ GetVal(e.ret, "H_new") <= GetVal(e.ret, "H_old")
    /\ e.name = "ingress_flood" =>
         /\ ~e.raised
         /\ Keys(e.ret) = {"demand", "io"}
         /\ GetVal(e.ret, "demand") = plant'.demand
         /\ GetVal(e.ret, "io") = plant'.io
         /\ GetVal(e.ret, "demand") \in 0 .. PlantUnit
         /\ GetVal(e.ret, "io") \in 0 .. PlantUnit
    /\ e.name = "command_conflict" =>
         /\ ~e.raised
         /\ e.ret = << <<"cmd", "hard_shutdown">> >>
         /\ plant'.last_cmd = "hard_shutdown"

\* C32 as stated: apply_omega returns the documented summary for power_sag
\* (H_old, H_new with 0 <= H_new <= H_old), ingress_flood (demand and io within
\* [0, 1]) and command_conflict (cmd = "hard_shutdown", left pending in the
\* plant), and for any other name raises ValueError and leaves the plant unchanged.
C32_OnlyThreeOmegas ==
    [][OmegaCallMade =>
         LET e == Last(pl_hist')
         IN  /\ DocumentedSummaries(e)
             /\ e.name \notin {"power_sag", "ingress_flood", "command_conflict"} =>
                  (e.raised /\ plant' = plant)]_vars

\* C32, amended: the same for power_sag, ingress_flood and command_conflict;
\* exogenous_subsidy is a fourth recognized name, which returns E (the new E,
\* within [0, 1]) and zero_harvest and sets H to 0 when zero_harvest is set; every
\* name other than these four raises ValueError and leaves the plant unchanged.
C32_FourOmegas ==
    [][OmegaCallMade =>
         LET e == Last(pl_hist')
         IN  /\ DocumentedSummaries(e)
             /\ e.name = "exogenous_subsidy" =>
                  /\ ~e.raised
                  /\ Keys(e.ret) = {"E", "zero_harvest"}
                  /\ GetVal(e.ret, "E") = plant'.E
                  /\ GetVal(e.ret, "E") \in 0 .. PlantUnit
                  /\ GetVal(e.ret, "zero_harvest") = PlantUnit => plant'.H = 0
             /\ e.name \notin {"power_sag", "ingress_flood", "command_conflict",
                               "exogenous_subsidy"} =>
                  (e.raised /\ plant' = plant)]_vars

\* a sag, a flood that saturated demand, and a command conflict were applied, and
\* then an unknown name raised with the command still pending
C32_Witness ==
    /\ Len(pl_hist) = 4
    /\ pl_hist[1].name = "power_sag" /\ GetVal(pl_hist[1].ret, "H_new") = 105
    /\ pl_hist[2].name = "ingress_flood" /\ GetVal(pl_hist[2].ret, "demand") = 5000
    /\ pl_hist[3].name = "command_conflict"
    /\ pl_hist[4].name = "unknown" /\ pl_hist[4].raised
    /\ plant.last_cmd = "hard_shutdown"


\* whether a command was issued by a call strictly between calls i and j
CommandIssuedBetween(i, j) ==
    \E k \in (i + 1) .. (j - 1) :
        pl_hist[k].op = "apply_omega" /\ pl_hist[k].name = "command_conflict"

\* C37: a hard_shutdown that is pending when the plant is stepped with
\* accept_cmd = false is discarded by that refusal: no later step applies the
\* shutdown penalty unless a new command was issued in between; and a command
\* that was applied is applied only once.
C37_RefusedCommandDiscarded ==
    \A i \in DOMAIN pl_hist : \A j \in DOMAIN pl_hist :
        i < j =>
          /\ (/\ pl_hist[i].op = "write_actuators"
              /\ pl_hist[i].pending = "hard_shutdown"
              /\ ~pl_hist[i].accept_cmd
              /\ ~CommandIssuedBetween(i, j)) => ~pl_hist[j].applied
          /\ (pl_hist[i].applied /\ pl_hist[j].applied) => CommandIssuedBetween(i, j)


-----------------------------------------------------------------------------
(* Properties of the AuditLog properties counter and last_hash (SpecAudit) *)

\* C33: between calls, AuditLog.counter is the counter of the last record this
\* instance wrote to the file (0 if it wrote none) and AuditLog.last_hash is that
\* record's hash ("GENESIS" if none), also after an append call that raised.
C33_HeadIsLastRecord ==
    /\ audit_counter = IF audit_file = <<>> THEN 0 ELSE Last(audit_file).counter
    /\ audit_prev_hash = IF audit_file = <<>> THEN Genesis ELSE Last(audit_file).hash


-----------------------------------------------------------------------------
(* Properties of the audit file across instances and of the chain checks
   (SpecAuditFile) *)

\* C34: an AuditLog constructed on a path that already holds records continues
\* the chain: its first record has counter = last existing counter + 1 and
\* prev_hash = last existing hash, and the whole file passes audit_chain_broken.
C34_ReopenContinuesChain ==
    /\ \A k \in DOMAIN aud_base :
         LET b == aud_base[k]
         IN  (b >= 1 /\ Len(audit_file) > b) =>
               /\ audit_file[b + 1].counter = audit_file[b].counter + 1
               /\ audit_file[b + 1].prev_hash = audit_file[b].hash
    /\ audit_file # <<>> => ~audit_chain_broken(audit_file)

\* C36: when the event or the details of a record of the audit file is altered
\* and no hash or prev_hash field is touched, audit_chain_broken and
\* audit_chain_status both report the chain as broken.
C36_AlteredContentDetected ==
    (chain_ret.op = "check" /\ chain_ret.content_changed) =>
        (chain_ret.broken /\ ~chain_ret.chain_ok)


-----------------------------------------------------------------------------
(* Properties of derive() under concurrent calls (SpecLregThreads) *)

\* C35: derive() never returns nc1 = true together with invalidated = true, also
\* when invalidate() or write() runs in another thread while derive() executes.
C35_DeriveConsistent ==
    lreg_ret.op = "derive" => ~(lreg_ret.val.nc1 /\ lreg_ret.val.invalidated)


-----------------------------------------------------------------------------
(* Properties of maybe_regrow for arbitrary suggestions (SpecPartAny) *)

\* C38: whatever list of integers is suggested, no maybe_regrow call commits a
\* partition whose C holds an index outside {0..N-1}, and C and Ex together are
\* {0..N-1} after every call.
C38_CommittedCInRange ==
    /\ Range(part_C) \subseteq 0 .. (pm_N - 1)
    /\ Range(part_C) \cup Range(part_Ex) = 0 .. (pm_N - 1)


\* C39: when the partition manager is frozen at the start of an omega
\* perturbation and stays frozen until after its stop, the calls of maybe_regrow
\* made in between leave the flip count where it was at the start, and
\* invalid_flip_during_omega(flips at start, flips at stop) answers false; the
\* smell test answers true only when the manager was unfrozen at some moment of
\* the perturbation.
C39_FrozenOmegaNoFlipSmell ==
    /\ (om.phase = "active" /\ ~om.thawed) => part_flips = om.flips_before
    /\ (om.phase = "after" /\ ~om.thawed) => ~om.ret
    /\ (om.phase = "after" /\ om.ret) => om.thawed

\* a perturbation with the flip test enabled has stopped, the manager was frozen
\* throughout, a call of maybe_regrow in between was held back that would have
\* committed, and the smell test answered false
C39_Witness ==
    /\ om.phase = "after"
    /\ ~om.thawed
    /\ om.held
    /\ om.forbid
    /\ om.flips_before >= 1
    /\ ~om.ret

====
